---------------------------- MODULE Spec2Model ----------------------------
(***************************************************************************)
(* Federated-learning core of ai-surveillance-platform:                    *)
(*   federated_learning/secure_aggregation.py  SecureAggregationProtocol   *)
(*   federated_learning/model_versioning.py    ModelVersionManager         *)
(*   federated_learning/model_aggregator.py    ModelAggregator             *)
(*                                                                         *)
(* A tensor is the sequence of its elements (a one-dimensional tensor, its *)
(* shape is its length); tensor arithmetic is exact.  A model state dict   *)
(* (an OrderedDict) is the sequence of its <<key, tensor>> items in        *)
(* insertion order, keys distinct.  Layer keys are numbered in their       *)
(* lexicographic order, so that sorted(model.keys()) is the ascending      *)
(* enumeration of the key set.                                             *)
(***************************************************************************)
EXTENDS Integers, Sequences, FiniteSets, TLC

VARIABLES
    \* ---- SecureAggregationProtocol ----
    shared_secrets,     \* self.shared_secrets: sorted pair -> secret bytes
    round_peers,        \* the peer list handed to every client of the round
    submitted,          \* client -> the raw model it masked and mask_model's result
    sec_pc,             \* concurrent callers: position in generate_pairwise_secret
    sec_local,          \* concurrent callers: arguments, locals, return value
    verify_call,        \* the last verify_client_contribution call: its arguments
                        \* and what it returned
    \* ---- ModelVersionManager ----
    versions,           \* self.versions: version string -> ModelVersion
    version_history,    \* self.version_history
    blobs,              \* the .pth files of storage_dir: path -> saved model
    registry_file,      \* storage_dir / "version_registry.json"
    now,                \* datetime.utcnow(), in whole seconds
    alive,              \* the process holding the manager is running
    ver_call,           \* the call that returned last: its name, its argument
                        \* and what it returned or raised
    ver_pc,             \* concurrent callers: position in save / cleanup
    ver_local,          \* concurrent callers: arguments and locals
    ver_start,          \* the store when the concurrent calls were invoked
    \* ---- ModelAggregator ----
    aggregation_method, \* self.aggregation_method
    aggregation_history,\* self.aggregation_history
    agg_call,           \* the arguments of the last aggregate_models call
    agg_ret,            \* what the last aggregate_models call returned or raised
    outlier_call,       \* the last detect_outlier_clients or filter_outliers call:
                        \* its arguments and what it returned or raised
    dp_call,            \* the last DifferentialPrivacy.add_noise_to_gradients call:
                        \* the object's epsilon and delta, the arguments, the
                        \* noise scale it used and what it returned
    dp_prev,            \* epsilon, delta, clip_norm and noise scale of the call before
    unmask_call,        \* the server's unmask_aggregated_model call: the sum of
                        \* masked models and the client list it passed, and
                        \* what the call returned
    hash_call           \* two state dicts and what the two _compute_model_hash
                        \* methods returned for them

secure_vars == <<shared_secrets, round_peers, submitted, sec_pc, sec_local, verify_call>>

version_vars == <<versions, version_history, blobs, registry_file, now, alive,
                  ver_call, ver_pc, ver_local, ver_start>>

agg_vars == <<aggregation_method, aggregation_history, agg_call, agg_ret, outlier_call>>

call_vars == <<dp_call, dp_prev, unmask_call, hash_call>>

vars == <<secure_vars, version_vars, agg_vars, call_vars>>

None == "None"

(***************************************************************************)
(* Bounds                                                                  *)
(***************************************************************************)
\* seeds (the first 8 bytes of a secret, as an integer) range over 0..MaxSeed
MaxSeed == 1
\* the clock runs over 0..MaxTime seconds
MaxTime == 1
\* save_version is not called on a history of MaxHistory entries
MaxHistory == 3
\* cleanup_old_versions is called with keep_last_n in 0..MaxKeep
MaxKeep == 2
\* aggregate_models is called with at most MaxClients client models
MaxClients == 2
\* aggregate_models is not called on a history of MaxRounds records
MaxRounds == 2
\* detect_outlier_clients is called with at most MaxDetect client models
MaxDetect == 3
\* the coordinates of the masked models given to verify_client_contribution
\* are in 0..MaxCoord
MaxCoord == 1

ClientIds == {1, 2, 3}
\* the threads of the concurrent runs
Threads == {1, 2}

(***************************************************************************)
(* Tensors and model state dicts                                           *)
(***************************************************************************)
Range(s) == {s[k] : k \in 1..Len(s)}

NoDuplicates(s) == \A a, b \in 1..Len(s) : s[a] = s[b] => a = b

\* elementwise t + sign * u on tensors of one shape
TensorAddScaled(t, sign, u) == [k \in 1..Len(t) |-> t[k] + sign * u[k]]

RECURSIVE SetSum(_, _)
\* sum of f[x] over x in S, f[x] integers
SetSum(f, S) ==
    IF S = {} THEN 0
    ELSE LET x == CHOOSE y \in S : TRUE
         IN  f[x] + SetSum(f, S \ {x})

\* model.keys() as a set
KeySet(model) == {model[n][1] : n \in 1..Len(model)}

\* model[key]
Param(model, key) == model[CHOOSE n \in 1..Len(model) : model[n][1] = key][2]

ModelA == << <<1, <<1, 2>>>>, <<2, <<3>>>> >>
ModelB == << <<1, <<0, -1>>>>, <<2, <<5>>>> >>

\* the raw models clients train: one architecture, layers 1 and 2
RawModels == {ModelA, ModelB}

\* a dict without one key
Remove(f, key) == [x \in DOMAIN f \ {key} |-> f[x]]

Max(a, b) == IF a >= b THEN a ELSE b

\* Python's s[:-n] for n >= 0 (s[:-0] is s[:0], the empty list)
SliceHead(s, n) == IF n = 0 THEN <<>> ELSE SubSeq(s, 1, Len(s) - n)

\* Python's s[-n:] for n >= 0 (s[-0:] is s[0:], the whole list)
SliceTail(s, n) == IF n = 0 THEN s ELSE SubSeq(s, Max(1, Len(s) - n + 1), Len(s))


RECURSIVE SortedSeq(_)
\* sorted(keys): the ascending enumeration of a finite set of integers
SortedSeq(S) ==
    IF S = {} THEN <<>>
    ELSE LET m == CHOOSE x \in S : \A y \in S : x <= y
         IN  <<m>> \o SortedSeq(S \ {m})

(***************************************************************************)
(* SecureAggregationProtocol                                               *)
(***************************************************************************)
\* secrets.token_bytes(32).  A secret is modelled by the integer its first 8
\* bytes hold; its other 24 bytes enter no computation
TokenBytes == 0..MaxSeed

\* the keys mask_model can create: sorted pairs of distinct clients
PairKeys == {<<i, j>> \in ClientIds \X ClientIds : i < j}

\* the peer lists a caller may pass: every list without repetition, and the
\* lists of at most two entries with one
PeerLists ==
    {p \in UNION {[1..n -> ClientIds] : n \in 0..Cardinality(ClientIds)} :
        NoDuplicates(p) \/ Len(p) <= 2}

\* key = tuple(sorted([client_i, client_j]))
SortedKey(client_i, client_j) ==
    IF client_i <= client_j THEN <<client_i, client_j>> ELSE <<client_j, client_i>>

\* a generate_pairwise_secret that replaces a cached secret
GeneratePairwiseSecretNoCheck(cache, client_i, client_j, token) ==
    (SortedKey(client_i, client_j) :> token) @@ cache

\* generate_pairwise_secret: the cache after the call, token being what
\* secrets.token_bytes would draw
generate_pairwise_secret(cache, client_i, client_j, token) ==
    LET key == SortedKey(client_i, client_j)
    IN  IF key \notin DOMAIN cache THEN (key :> token) @@ cache ELSE cache

\* what generate_pairwise_secret returns: self.shared_secrets[key]
generate_pairwise_secret_ret(cache, client_i, client_j, token) ==
    generate_pairwise_secret(cache, client_i, client_j, token)[SortedKey(client_i, client_j)]

\* torch.randn(shape, generator=Generator().manual_seed(seed)): a sequence
\* of pseudo-random numbers determined by the seed alone
Randn(seed, shape) == [k \in 1..shape |-> (((seed + 2) * (k + 1)) % 5) - 2]

\* _secret_to_mask: seed = int.from_bytes(secret[:8], 'big')
secret_to_mask(secret, shape) == Randn(secret, shape)

\* a sign rule that adds the mask on both sides of a pair
MaskSignAlwaysAdd(client_id, peer_id) == 1

\* masked_param += mask if client_id < peer_id, else masked_param -= mask
MaskSign(client_id, peer_id) == IF client_id < peer_id THEN 1 ELSE -1

RECURSIVE MaskParam(_, _, _, _, _, _)
\* the inner loop of mask_model over peer_clients[n..]: the cache and the
\* masked parameter it ends with
MaskParam(cache, client_id, masked_param, peer_clients, n, tokens) ==
    IF n > Len(peer_clients) THEN [cache |-> cache, param |-> masked_param]
    ELSE LET peer_id == peer_clients[n]
         IN  IF peer_id = client_id
             THEN MaskParam(cache, client_id, masked_param, peer_clients, n + 1, tokens)
             ELSE LET key    == SortedKey(client_id, peer_id)
                      cache2 == generate_pairwise_secret(cache, client_id, peer_id, tokens[key])
                      mask   == secret_to_mask(cache2[key], Len(masked_param))
                  IN  MaskParam(cache2, client_id,
                                TensorAddScaled(masked_param, MaskSign(client_id, peer_id), mask),
                                peer_clients, n + 1, tokens)

RECURSIVE MaskLayers(_, _, _, _, _, _)
\* the outer loop of mask_model over model.items()[n..]
MaskLayers(cache, client_id, model, n, peer_clients, tokens) ==
    IF n > Len(model) THEN [cache |-> cache, model |-> <<>>]
    ELSE LET one  == MaskParam(cache, client_id, model[n][2], peer_clients, 1, tokens)
             rest == MaskLayers(one.cache, client_id, model, n + 1, peer_clients, tokens)
         IN  [cache |-> rest.cache, model |-> <<<<model[n][1], one.param>>>> \o rest.model]

\* mask_model: the cache after the call and the masked model returned
mask_model(cache, client_id, model, peer_clients, tokens) ==
    MaskLayers(cache, client_id, model, 1, peer_clients, tokens)

\* an unmask_aggregated_model that returns a model of zeros
UnmaskToZeros(aggregated_model, active_clients) ==
    [n \in 1..Len(aggregated_model) |->
        <<aggregated_model[n][1],
          [k \in 1..Len(aggregated_model[n][2]) |-> 0]>>]

\* unmask_aggregated_model returns its argument
unmask_aggregated_model(aggregated_model, active_clients) == aggregated_model

\* the three objects as constructed and not in use
IdleSecure ==
    /\ shared_secrets = <<>>
    /\ round_peers = <<>>
    /\ submitted = <<>>
    /\ sec_pc = None
    /\ sec_local = None
    /\ verify_call = [op |-> "init", client_id |-> 0, masked_model |-> <<>>,
                      commitment_hash |-> <<>>, ret |-> <<>>]

IdleVersion ==
    /\ versions = <<>>
    /\ version_history = <<>>
    /\ blobs = <<>>
    /\ registry_file = [exists |-> FALSE, chunks |-> <<>>]
    /\ now = 0
    /\ alive = TRUE
    /\ ver_call = [op |-> "init", arg |-> <<>>, ret |-> <<"None">>]
    /\ ver_pc = [t \in Threads |-> "idle"]
    /\ ver_local = <<>>
    /\ ver_start = <<>>

IdleCalls ==
    /\ dp_call = [op |-> "init", epsilon |-> <<1, 1>>, delta |-> <<1, 100000>>,
                  gradients |-> <<>>, clip_norm |-> <<1, 1>>,
                  noise_scale |-> <<0, 1>>, ret |-> <<>>]
    /\ dp_prev = [op |-> "init", epsilon |-> <<1, 1>>, delta |-> <<1, 100000>>,
                  clip_norm |-> <<1, 1>>, noise_scale |-> <<0, 1>>]
    /\ unmask_call = [op |-> "init", aggregated_model |-> <<>>,
                      active_clients |-> <<>>, ret |-> <<>>]
    /\ hash_call = [op |-> "init", model1 |-> <<>>, model2 |-> <<>>,
                    versioning |-> <<>>, secure |-> <<>>]

IdleAgg ==
    /\ aggregation_method = None
    /\ aggregation_history = <<>>
    /\ agg_call = [op |-> "init", client_models |-> <<>>, global_model |-> <<>>]
    /\ agg_ret = [raised |-> None, model |-> <<>>]
    /\ outlier_call = [op |-> "init", client_models |-> <<>>, threshold |-> <<0, 1>>,
                       raised |-> None, ret |-> <<>>]

InitSecure ==
    /\ IdleVersion /\ IdleAgg /\ IdleCalls
    /\ shared_secrets = <<>>
    /\ round_peers = <<>>
    /\ submitted = <<>>
    /\ sec_pc = None
    /\ sec_local = None
    /\ verify_call = [op |-> "init", client_id |-> 0, masked_model |-> <<>>,
                      commitment_hash |-> <<>>, ret |-> <<>>]

\* the collector fixes the round's participants and hands each the peer list
StartRound(peers) ==
    /\ round_peers' = peers
    /\ submitted' = <<>>
    /\ UNCHANGED <<version_vars, agg_vars, call_vars, verify_call, shared_secrets, sec_pc, sec_local>>

\* client_id masks its raw model against the round's peer list
MaskModel(client_id, model, tokens) ==
    LET r == mask_model(shared_secrets, client_id, model, round_peers, tokens)
    IN  /\ shared_secrets' = r.cache
        /\ submitted' = (client_id :> [raw |-> model, masked |-> r.model]) @@ submitted
            /\ UNCHANGED <<version_vars, agg_vars, call_vars, verify_call, round_peers, sec_pc, sec_local>>

\* a direct call generate_pairwise_secret(client_i, client_j)
GeneratePairwiseSecret(client_i, client_j, token) ==
    LET cache == generate_pairwise_secret(shared_secrets, client_i, client_j, token)
    IN  /\ shared_secrets' = cache
        /\ UNCHANGED <<version_vars, agg_vars, call_vars, verify_call, round_peers, submitted, sec_pc, sec_local>>

NextSecure ==
    \/ \E peers \in PeerLists : StartRound(peers)
    \/ \E c \in ClientIds, model \in RawModels, tokens \in [PairKeys -> TokenBytes] :
            MaskModel(c, model, tokens)
    \/ \E i, j \in ClientIds, token \in TokenBytes :
            i # j /\ GeneratePairwiseSecret(i, j, token)

SpecSecure == InitSecure /\ [][NextSecure]_vars

(***************************************************************************)
(* The server's side of a round: it sums the masked models it received     *)
(* and passes the sum and the clients it heard from to                     *)
(* unmask_aggregated_model.  The round ends with that call.                *)
(***************************************************************************)
\* the layer-wise sum of one field (raw or masked) of the submissions of a
\* non-empty set of clients
SumOfModels(field, clients) ==
    LET first == submitted[CHOOSE c \in clients : TRUE][field]
    IN  [n \in 1..Len(first) |->
            <<first[n][1],
              [k \in 1..Len(first[n][2]) |->
                  SetSum([c \in clients |-> submitted[c][field][n][2][k]], clients)]>>]

UnmaskAggregatedModel ==
    /\ DOMAIN submitted # {}
    /\ LET active_clients == SortedSeq(DOMAIN submitted)
           aggregated_model == SumOfModels("masked", DOMAIN submitted)
       IN  unmask_call' = [op |-> "unmask_aggregated_model",
                           aggregated_model |-> aggregated_model,
                           active_clients |-> active_clients,
                           ret |-> unmask_aggregated_model(aggregated_model,
                                                           active_clients)]
    /\ UNCHANGED <<secure_vars, version_vars, agg_vars, dp_call, dp_prev, hash_call>>

NextUnmask ==
    \/ unmask_call.op = "init" /\ NextSecure
    \/ unmask_call.op = "init" /\ UnmaskAggregatedModel

SpecUnmask == InitSecure /\ [][NextUnmask]_vars

(***************************************************************************)
(* generate_pairwise_secret called from several threads.  The method takes *)
(* no lock; a thread switch can fall between any two of its statements.    *)
(***************************************************************************)
InitSecureConc ==
    /\ IdleVersion /\ IdleAgg /\ IdleCalls
    /\ shared_secrets = <<>>
    /\ round_peers = <<>>
    /\ submitted = <<>>
    /\ sec_pc = [t \in Threads |-> "idle"]
    /\ sec_local = [t \in Threads |-> [key |-> <<>>, secret |-> <<>>, ret |-> <<>>]]
    /\ verify_call = [op |-> "init", client_id |-> 0, masked_model |-> <<>>,
                      commitment_hash |-> <<>>, ret |-> <<>>]

\* line 91: a caller enters and computes key
SecretCall(t, client_i, client_j) ==
    /\ sec_pc[t] \in {"idle", "done"}
    /\ sec_pc' = [sec_pc EXCEPT ![t] = "check"]
    /\ sec_local' = [sec_local EXCEPT ![t] =
                        [key |-> SortedKey(client_i, client_j), secret |-> <<>>, ret |-> <<>>]]
    /\ UNCHANGED <<version_vars, agg_vars, call_vars, verify_call, shared_secrets, round_peers, submitted>>

\* line 93: if key not in self.shared_secrets
SecretCheck(t) ==
    /\ sec_pc[t] = "check"
    /\ sec_pc' = [sec_pc EXCEPT ![t] =
                    IF sec_local[t].key \notin DOMAIN shared_secrets THEN "token" ELSE "return"]
    /\ UNCHANGED <<version_vars, agg_vars, call_vars, verify_call, shared_secrets, round_peers, submitted, sec_local>>

\* line 94: secret = secrets.token_bytes(32)
SecretToken(t, token) ==
    /\ sec_pc[t] = "token"
    /\ sec_pc' = [sec_pc EXCEPT ![t] = "store"]
    /\ sec_local' = [sec_local EXCEPT ![t].secret = <<token>>]
    /\ UNCHANGED <<version_vars, agg_vars, call_vars, verify_call, shared_secrets, round_peers, submitted>>

\* line 95: self.shared_secrets[key] = secret
SecretStore(t) ==
    /\ sec_pc[t] = "store"
    /\ shared_secrets' = (sec_local[t].key :> sec_local[t].secret[1]) @@ shared_secrets
    /\ sec_pc' = [sec_pc EXCEPT ![t] = "return"]
    /\ UNCHANGED <<version_vars, agg_vars, call_vars, verify_call, round_peers, submitted, sec_local>>

\* line 97: return self.shared_secrets[key]
SecretReturn(t) ==
    /\ sec_pc[t] = "return"
    /\ sec_local' = [sec_local EXCEPT ![t].ret = <<shared_secrets[sec_local[t].key]>>]
    /\ sec_pc' = [sec_pc EXCEPT ![t] = "done"]
    /\ UNCHANGED <<version_vars, agg_vars, call_vars, verify_call, shared_secrets, round_peers, submitted>>

NextSecureConc ==
    \/ \E t \in Threads, i, j \in ClientIds : i # j /\ SecretCall(t, i, j)
    \/ \E t \in Threads : SecretCheck(t)
    \/ \E t \in Threads, token \in TokenBytes : SecretToken(t, token)
    \/ \E t \in Threads : SecretStore(t)
    \/ \E t \in Threads : SecretReturn(t)

SpecSecureConc == InitSecureConc /\ [][NextSecureConc]_vars

(***************************************************************************)
(* ModelVersionManager                                                     *)
(*                                                                         *)
(* The store is handled as a record [versions, history, blobs, file]; an   *)
(* operation is an operator from the store (and the clock) to the store    *)
(* it leaves and what it returns.                                          *)
(***************************************************************************)
Epochs == {1, 2}

\* float('inf'): above every other metric value of the model
Inf == 9
\* a float that is no number
NaN == Inf + 1

\* version = f"v{epoch}_{utcnow().strftime('%Y%m%d_%H%M%S')}": one string per
\* epoch and clock second
VersionId(epoch, t) == <<epoch, t>>

AllVersionIds == {VersionId(epoch, t) : epoch \in Epochs, t \in 0..MaxTime}

\* a path that drops the epoch from the file name
ModelPathNoEpoch(version) == <<"pth", version[2]>>

\* model_path = self.storage_dir / f"{version}.pth"
ModelPath(version) == <<"pth", version>>

RECURSIVE ConcatParams(_, _, _)
\* the bytes fed to the hasher for keys[n..]
ConcatParams(model, keys, n) ==
    IF n > Len(keys) THEN <<>>
    ELSE Param(model, keys[n]) \o ConcatParams(model, keys, n + 1)

\* a hash that takes the layers in insertion order
HashInInsertionOrder(model) ==
    ConcatParams(model, [n \in 1..Len(model) |-> model[n][1]], 1)

\* _compute_model_hash: SHA-256 of the tensors' bytes in sorted key order.
\* SHA-256 is taken injective: the digest is modelled by the bytes hashed
compute_model_hash(model) == ConcatParams(model, SortedSeq(KeySet(model)), 1)

\* datetime.isoformat() and datetime.fromisoformat()
isoformat(t) == <<"iso", t>>
fromisoformat(text) == text[2]

\* ModelVersion.to_dict
to_dict(mv) ==
    [version |-> mv.version, epoch |-> mv.epoch, model_hash |-> mv.model_hash,
     model_path |-> mv.model_path, metrics |-> mv.metrics, metadata |-> mv.metadata,
     created_at |-> isoformat(mv.created_at)]

\* ModelVersion.from_dict
from_dict(data) ==
    [version |-> data.version, epoch |-> data.epoch, model_hash |-> data.model_hash,
     model_path |-> data.model_path, metrics |-> data.metrics, metadata |-> data.metadata,
     created_at |-> fromisoformat(data.created_at)]

\* registry_data of _save_version_registry, as json.dump writes it: the
\* "versions" object, then the "version_history" list
RegistryData(vs, history) ==
    << <<"versions", [v \in DOMAIN vs |-> to_dict(vs[v])]>>,
       <<"version_history", history>> >>

\* _save_version_registry: open(registry_path, 'w') and json.dump, completed
save_version_registry(st) ==
    [st EXCEPT !.file = [exists |-> TRUE, chunks |-> RegistryData(st.versions, st.history)]]

\* a file json.load accepts: the whole document
Parses(file) == Len(file.chunks) = 2

\* __init__ with _load_version_registry: the versions and history a manager
\* constructed on the directory starts with
load_version_registry(file) ==
    IF file.exists /\ Parses(file)
    THEN [versions |-> [v \in DOMAIN file.chunks[1][2] |-> from_dict(file.chunks[1][2][v])],
          history  |-> file.chunks[2][2]]
    ELSE [versions |-> <<>>, history |-> <<>>]

\* metadata or {}: the optional argument is {} for None, {dict} otherwise
MetadataOrEmpty(metadata) ==
    IF metadata = {} THEN <<>> ELSE CHOOSE md \in metadata : TRUE

\* the ModelVersion save_version builds at clock second t (lines 100-118)
NewModelVersion(model, epoch, metrics, metadata, t) ==
    LET version == VersionId(epoch, t)
    IN  [version |-> version, epoch |-> epoch,
         model_hash |-> compute_model_hash(model), model_path |-> ModelPath(version),
         metrics |-> metrics, metadata |-> MetadataOrEmpty(metadata),
         created_at |-> t]

\* save_version at clock second t
save_version(st, model, epoch, metrics, metadata, t) ==
    LET mv  == NewModelVersion(model, epoch, metrics, metadata, t)
        st2 == [st EXCEPT !.blobs = (mv.model_path :> model) @@ @,
                          !.versions = (mv.version :> mv) @@ @,
                          !.history = Append(@, mv.version)]
    IN  [store |-> save_version_registry(st2), ret |-> mv]

\* load_version: torch.load of the entry's model_path, None when the version
\* is unknown or the file cannot be read
load_version(st, version) ==
    IF version \notin DOMAIN st.versions THEN [ok |-> FALSE, model |-> <<>>]
    ELSE LET model_path == st.versions[version].model_path
         IN  IF model_path \in DOMAIN st.blobs
             THEN [ok |-> TRUE, model |-> st.blobs[model_path]]
             ELSE [ok |-> FALSE, model |-> <<>>]

\* a rollback that takes an unknown version for done
RollbackUnknownSucceeds(st, version, t) ==
    IF version \notin DOMAIN st.versions
    THEN [store |-> save_version_registry(st), ret |-> TRUE]
    ELSE LET model_path == st.versions[version].model_path
             old        == st.versions[version]
             metadata   == ("rollback_from" :> version) @@ ("rollback_at" :> isoformat(t))
                              @@ old.metadata
         IN  IF model_path \notin DOMAIN st.blobs THEN [store |-> st, ret |-> FALSE]
             ELSE [store |-> save_version(st, st.blobs[model_path], old.epoch, old.metrics,
                                          {metadata}, t).store,
                   ret |-> TRUE]

\* rollback_to_version at clock second t
rollback_to_version(st, version, t) ==
    IF version \notin DOMAIN st.versions THEN [store |-> st, ret |-> FALSE]
    ELSE LET old_model == load_version(st, version)
             old       == st.versions[version]
             metadata  == ("rollback_from" :> version) @@ ("rollback_at" :> isoformat(t))
                              @@ old.metadata
         IN  IF ~old_model.ok THEN [store |-> st, ret |-> FALSE]
             ELSE [store |-> save_version(st, old_model.model, old.epoch, old.metrics,
                                          {metadata}, t).store,
                   ret |-> TRUE]

RECURSIVE CleanupLoop(_, _, _, _)
\* the loop of cleanup_old_versions over versions_to_remove[n..]:
\* self.versions[version] raises KeyError for a version already deleted;
\* a failing unlink is caught
CleanupLoop(vs, files, versions_to_remove, n) ==
    IF n > Len(versions_to_remove) THEN [versions |-> vs, blobs |-> files, raised |-> FALSE]
    ELSE LET version == versions_to_remove[n]
         IN  IF version \notin DOMAIN vs
             THEN [versions |-> vs, blobs |-> files, raised |-> TRUE]
             ELSE CleanupLoop(Remove(vs, version), Remove(files, vs[version].model_path),
                              versions_to_remove, n + 1)

\* cleanup_old_versions
cleanup_old_versions(st, keep_last_n) ==
    IF Len(st.history) <= keep_last_n THEN [store |-> st, raised |-> FALSE]
    ELSE LET versions_to_remove == SliceHead(st.history, keep_last_n)
             loop == CleanupLoop(st.versions, st.blobs, versions_to_remove, 1)
             st2  == [st EXCEPT !.versions = loop.versions, !.blobs = loop.blobs]
         IN  IF loop.raised THEN [store |-> st2, raised |-> TRUE]
             ELSE [store |-> save_version_registry(
                                [st2 EXCEPT !.history = SliceTail(st.history, keep_last_n)]),
                   raised |-> FALSE]

\* v2.metrics[metric] - v1.metrics[metric] on floats
FloatSub(a, b) ==
    IF a = Inf /\ b = Inf THEN NaN
    ELSE IF a = Inf THEN Inf
    ELSE IF b = Inf THEN -Inf
    ELSE a - b

\* compare_versions: the error dict when one of the versions is unknown,
\* the comparison otherwise
compare_versions(st, version1, version2) ==
    IF version1 \notin DOMAIN st.versions \/ version2 \notin DOMAIN st.versions
    THEN [error |-> "One or both versions not found"]
    ELSE LET v1 == st.versions[version1]
             v2 == st.versions[version2]
         IN  [version1 |-> version1, version2 |-> version2,
              epoch_diff |-> v2.epoch - v1.epoch,
              metrics_diff |-> [metric \in DOMAIN v1.metrics \cap DOMAIN v2.metrics |->
                                   FloatSub(v2.metrics[metric], v1.metrics[metric])],
              same_hash |-> v1.model_hash = v2.model_hash]

RECURSIVE FirstOccurrences(_, _)
\* the ids of history[n..] in the order of their first occurrence
FirstOccurrences(history, n) ==
    IF n > Len(history) THEN <<>>
    ELSE (IF history[n] \in {history[k] : k \in 1..(n - 1)} THEN <<>> ELSE <<history[n]>>)
         \o FirstOccurrences(history, n + 1)

\* the keys of self.versions in the order the dict iterates them: the order
\* of their insertion, which is that of their first occurrence in the history
VersionKeys(st) ==
    SelectSeq(FirstOccurrences(st.history, 1), LAMBDA v : v \in DOMAIN st.versions)

RECURSIVE BestLoop(_, _, _, _, _, _)
\* the loop of get_best_version from the n-th key on; best_version is <<>>
\* for None
BestLoop(st, keys, metric, n, best_value, best_version) ==
    IF n > Len(keys) THEN best_version
    ELSE LET version == st.versions[keys[n]]
         IN  IF metric \notin DOMAIN version.metrics
             THEN BestLoop(st, keys, metric, n + 1, best_value, best_version)
             ELSE LET value == version.metrics[metric]
                      better == IF metric = "loss" THEN value < best_value
                                ELSE value > best_value
                  IN  IF better
                      THEN BestLoop(st, keys, metric, n + 1, value, <<version>>)
                      ELSE BestLoop(st, keys, metric, n + 1, best_value, best_version)

\* get_best_version: <<>> for None, <<version>> otherwise
get_best_version(st, metric) ==
    IF DOMAIN st.versions = {} THEN <<>>
    ELSE BestLoop(st, VersionKeys(st), metric, 1,
                  IF metric # "loss" THEN -Inf ELSE Inf, <<>>)

\* the metrics get_best_version is asked for; no version has "f1"
Metrics == {"accuracy", "loss", "f1"}

\* the arguments save_version is called with
SaveCalls ==
    { [model |-> ModelA, epoch |-> 1, metrics |-> [accuracy |-> 1], metadata |-> {}],
      [model |-> ModelB, epoch |-> 1, metrics |-> [accuracy |-> 2, loss |-> 1],
       metadata |-> {[tag |-> 1]}],
      [model |-> ModelB, epoch |-> 2, metrics |-> [loss |-> Inf], metadata |-> {}] }

\* the store held by the variables
Store ==
    [versions |-> versions, history |-> version_history, blobs |-> blobs,
     file |-> registry_file]

\* the variables take the store st
SetStore(st) ==
    /\ versions' = st.versions
    /\ version_history' = st.history
    /\ blobs' = st.blobs
    /\ registry_file' = st.file

\* no concurrent call is under way
Sequential == alive /\ \A t \in Threads : ver_pc[t] = "idle"

InitVersion ==
    /\ IdleSecure /\ IdleAgg
    /\ IdleVersion /\ IdleCalls

\* a second passes
Tick ==
    /\ Sequential
    /\ now < MaxTime
    /\ now' = now + 1
    /\ UNCHANGED <<secure_vars, agg_vars, call_vars, versions, version_history, blobs,
                   registry_file, alive, ver_call, ver_pc, ver_local, ver_start>>

SaveVersion(call) ==
    /\ Sequential
    /\ Len(version_history) < MaxHistory
    /\ SetStore(save_version(Store, call.model, call.epoch, call.metrics,
                             call.metadata, now).store)
    /\ ver_call' = [op |-> "save_version", arg |-> <<call.epoch>>,
                    ret |-> <<"version", save_version(Store, call.model, call.epoch,
                                             call.metrics, call.metadata, now).ret>>]
    /\ UNCHANGED <<secure_vars, agg_vars, call_vars, now, alive, ver_pc, ver_local, ver_start>>

RollbackToVersion(version) ==
    /\ Sequential
    /\ Len(version_history) < MaxHistory \/ version \notin DOMAIN versions
    /\ SetStore(rollback_to_version(Store, version, now).store)
    /\ ver_call' = [op |-> "rollback_to_version", arg |-> version,
                    ret |-> <<"bool", rollback_to_version(Store, version, now).ret>>]
    /\ UNCHANGED <<secure_vars, agg_vars, call_vars, now, alive, ver_pc, ver_local, ver_start>>

CleanupOldVersions(keep_last_n) ==
    /\ Sequential
    /\ SetStore(cleanup_old_versions(Store, keep_last_n).store)
    /\ ver_call' = [op |-> "cleanup_old_versions", arg |-> <<keep_last_n>>,
                    ret |-> IF cleanup_old_versions(Store, keep_last_n).raised
                            THEN <<"KeyError">> ELSE <<"None">>]
    /\ UNCHANGED <<secure_vars, agg_vars, call_vars, now, alive, ver_pc, ver_local, ver_start>>

NextVersion ==
    \/ Tick
    \/ \E call \in SaveCalls : SaveVersion(call)
    \/ \E version \in AllVersionIds : RollbackToVersion(version)
    \/ \E keep_last_n \in 0..MaxKeep : CleanupOldVersions(keep_last_n)

SpecVersion == InitVersion /\ [][NextVersion]_vars

(***************************************************************************)
(* The read operations of ModelVersionManager, on every store the writes   *)
(* reach.                                                                  *)
(***************************************************************************)
LoadVersion(version) ==
    /\ Sequential
    /\ ver_call' = [op |-> "load_version", arg |-> version,
                    ret |-> IF load_version(Store, version).ok
                            THEN <<"model", load_version(Store, version).model>>
                            ELSE <<"None">>]
    /\ UNCHANGED <<secure_vars, agg_vars, call_vars, versions, version_history, blobs,
                   registry_file, now, alive, ver_pc, ver_local, ver_start>>

CompareVersions(version1, version2) ==
    /\ Sequential
    /\ ver_call' = [op |-> "compare_versions", arg |-> <<version1, version2>>,
                    ret |-> <<"dict", compare_versions(Store, version1, version2)>>]
    /\ UNCHANGED <<secure_vars, agg_vars, call_vars, versions, version_history, blobs,
                   registry_file, now, alive, ver_pc, ver_local, ver_start>>

GetBestVersion(metric) ==
    /\ Sequential
    /\ ver_call' = [op |-> "get_best_version", arg |-> <<metric>>,
                    ret |-> IF get_best_version(Store, metric) = <<>> THEN <<"None">>
                            ELSE <<"version", get_best_version(Store, metric)[1]>>]
    /\ UNCHANGED <<secure_vars, agg_vars, call_vars, versions, version_history, blobs,
                   registry_file, now, alive, ver_pc, ver_local, ver_start>>

NextVersionQuery ==
    \/ NextVersion
    \/ \E version \in AllVersionIds : LoadVersion(version)
    \/ \E version1, version2 \in AllVersionIds : CompareVersions(version1, version2)
    \/ \E metric \in Metrics : GetBestVersion(metric)

SpecVersionQuery == InitVersion /\ [][NextVersionQuery]_vars

\* get_latest_version: <<>> for None, <<version>> otherwise;
\* self.versions.get gives None for an id the registry does not hold
get_latest_version(st) ==
    IF st.history = <<>> THEN <<>>
    ELSE LET latest_version_str == st.history[Len(st.history)]
         IN  IF latest_version_str \in DOMAIN st.versions
             THEN <<st.versions[latest_version_str]>>
             ELSE <<>>

GetLatestVersion ==
    /\ Sequential
    /\ ver_call' = [op |-> "get_latest_version", arg |-> <<>>,
                    ret |-> IF get_latest_version(Store) = <<>> THEN <<"None">>
                            ELSE <<"version", get_latest_version(Store)[1]>>]
    /\ UNCHANGED <<secure_vars, agg_vars, call_vars, versions, version_history, blobs,
                   registry_file, now, alive, ver_pc, ver_local, ver_start>>

NextVersionLatest ==
    \/ NextVersion
    \/ GetLatestVersion

SpecVersionLatest == InitVersion /\ [][NextVersionLatest]_vars

(***************************************************************************)
(* The process stops inside _save_version_registry, after open(path, 'w')  *)
(* has truncated the file and json.dump has written part of the document;  *)
(* a new manager is then constructed on the same directory.                *)
(***************************************************************************)
\* the stores left by the calls that reach _save_version_registry
RegistryWrites ==
    {save_version(Store, call.model, call.epoch, call.metrics, call.metadata, now).store :
        call \in {c \in SaveCalls : Len(version_history) < MaxHistory}}
    \cup {rollback_to_version(Store, version, now).store :
        version \in {v \in DOMAIN versions :
                        Len(version_history) < MaxHistory /\ load_version(Store, v).ok}}
    \cup {cleanup_old_versions(Store, keep_last_n).store :
        keep_last_n \in {k \in 0..MaxKeep :
                        Len(version_history) > k /\ ~cleanup_old_versions(Store, k).raised}}

\* the call ran up to the registry write, which stopped after `written` chunks
CrashInRegistryWrite(st, written) ==
    /\ Sequential
    /\ SetStore([st EXCEPT !.file = [exists |-> TRUE,
                                      chunks |-> SubSeq(st.file.chunks, 1, written)]])
    /\ alive' = FALSE
    /\ UNCHANGED <<secure_vars, agg_vars, call_vars, now, ver_call, ver_pc, ver_local, ver_start>>

\* ModelVersionManager(storage_dir) on the directory the stopped process left
Restart ==
    /\ ~alive
    /\ alive' = TRUE
    /\ versions' = load_version_registry(registry_file).versions
    /\ version_history' = load_version_registry(registry_file).history
    /\ ver_call' = [op |-> "init", arg |-> <<>>, ret |-> <<"None">>]
    /\ UNCHANGED <<secure_vars, agg_vars, call_vars, blobs, registry_file, now, ver_pc, ver_local,
                   ver_start>>

NextVersionCrash ==
    \/ NextVersion
    \/ \E st \in RegistryWrites, written \in 0..1 : CrashInRegistryWrite(st, written)
    \/ Restart

SpecVersionCrash == InitVersion /\ [][NextVersionCrash]_vars

(***************************************************************************)
(* save_version and cleanup_old_versions called from two threads.  Neither *)
(* takes a lock; a thread switch can fall between any two statements.  The *)
(* store is first filled by sequential save_version calls.                 *)
(***************************************************************************)
\* the calls a thread makes
ConcSaves == {[op |-> "save", call |-> {call}, keep |-> 0] : call \in SaveCalls}
ConcCleanups == {[op |-> "cleanup", call |-> {}, keep |-> k] : k \in 0..MaxKeep}

\* the store a call leaves when it runs alone
ApplyOp(st, op) ==
    IF op.op = "save"
    THEN LET call == CHOOSE c \in op.call : TRUE
         IN  save_version(st, call.model, call.epoch, call.metrics, call.metadata, now).store
    ELSE cleanup_old_versions(st, op.keep).store

\* thread 1 calls save_version while thread 2 calls save_version or
\* cleanup_old_versions
StartConcurrent(op1, op2) ==
    /\ Sequential
    /\ Len(version_history) + 2 <= MaxHistory + 1
    /\ ver_pc' = [t \in Threads |->
                    IF (IF t = 1 THEN op1 ELSE op2).op = "save" THEN "save1" ELSE "clean1"]
    /\ ver_local' = [t \in Threads |->
                       [op |-> IF t = 1 THEN op1 ELSE op2, mv |-> <<>>,
                        versions_to_remove |-> <<>>, n |-> 1, registry_data |-> <<>>]]
    /\ ver_start' = Store
    /\ UNCHANGED <<secure_vars, agg_vars, call_vars, versions, version_history, blobs,
                   registry_file, now, alive, ver_call>>

\* lines 100-118: version, model_hash, torch.save, ModelVersion(...)
ConcSave1(t) ==
    /\ ver_pc[t] = "save1"
    /\ LET call == CHOOSE c \in ver_local[t].op.call : TRUE
           mv   == NewModelVersion(call.model, call.epoch, call.metrics, call.metadata, now)
       IN  /\ blobs' = (mv.model_path :> call.model) @@ blobs
           /\ ver_local' = [ver_local EXCEPT ![t].mv = mv]
    /\ ver_pc' = [ver_pc EXCEPT ![t] = "save2"]
    /\ UNCHANGED <<secure_vars, agg_vars, call_vars, versions, version_history, registry_file,
                   now, alive, ver_call, ver_start>>

\* line 121: self.versions[version] = model_version
ConcSave2(t) ==
    /\ ver_pc[t] = "save2"
    /\ versions' = (ver_local[t].mv.version :> ver_local[t].mv) @@ versions
    /\ ver_pc' = [ver_pc EXCEPT ![t] = "save3"]
    /\ UNCHANGED <<secure_vars, agg_vars, call_vars, version_history, blobs, registry_file,
                   now, alive, ver_call, ver_local, ver_start>>

\* line 122: self.version_history.append(version)
ConcSave3(t) ==
    /\ ver_pc[t] = "save3"
    /\ version_history' = Append(version_history, ver_local[t].mv.version)
    /\ ver_pc' = [ver_pc EXCEPT ![t] = "registry1"]
    /\ UNCHANGED <<secure_vars, agg_vars, call_vars, versions, blobs, registry_file,
                   now, alive, ver_call, ver_local, ver_start>>

\* lines 321-327: registry_data is built from self.versions and
\* self.version_history
ConcRegistry1(t) ==
    /\ ver_pc[t] = "registry1"
    /\ ver_local' = [ver_local EXCEPT ![t].registry_data =
                        RegistryData(versions, version_history)]
    /\ ver_pc' = [ver_pc EXCEPT ![t] = "registry2"]
    /\ UNCHANGED <<secure_vars, agg_vars, call_vars, versions, version_history, blobs,
                   registry_file, now, alive, ver_call, ver_start>>

\* lines 329-330: open(registry_path, 'w') and json.dump(registry_data, f)
ConcRegistry2(t) ==
    /\ ver_pc[t] = "registry2"
    /\ registry_file' = [exists |-> TRUE, chunks |-> ver_local[t].registry_data]
    /\ ver_pc' = [ver_pc EXCEPT ![t] = "done"]
    /\ UNCHANGED <<secure_vars, agg_vars, call_vars, versions, version_history, blobs,
                   now, alive, ver_call, ver_local, ver_start>>

\* lines 282-285: the length test, then versions_to_remove
ConcClean1(t) ==
    /\ ver_pc[t] = "clean1"
    /\ IF Len(version_history) <= ver_local[t].op.keep
       THEN /\ ver_pc' = [ver_pc EXCEPT ![t] = "done"]
            /\ UNCHANGED ver_local
       ELSE /\ ver_pc' = [ver_pc EXCEPT ![t] = "clean2"]
            /\ ver_local' = [ver_local EXCEPT ![t].versions_to_remove =
                                SliceHead(version_history, ver_local[t].op.keep)]
    /\ UNCHANGED <<secure_vars, agg_vars, call_vars, versions, version_history, blobs,
                   registry_file, now, alive, ver_call, ver_start>>

\* lines 287-297: one round of the loop (KeyError ends the call), or its end
ConcClean2(t) ==
    /\ ver_pc[t] = "clean2"
    /\ LET l == ver_local[t]
       IN  IF l.n > Len(l.versions_to_remove)
           THEN /\ ver_pc' = [ver_pc EXCEPT ![t] = "clean3"]
                /\ UNCHANGED <<versions, blobs, ver_local>>
           ELSE IF l.versions_to_remove[l.n] \notin DOMAIN versions
           THEN /\ ver_pc' = [ver_pc EXCEPT ![t] = "raised"]
                /\ UNCHANGED <<versions, blobs, ver_local>>
           ELSE /\ blobs' = Remove(blobs, versions[l.versions_to_remove[l.n]].model_path)
                /\ versions' = Remove(versions, l.versions_to_remove[l.n])
                /\ ver_local' = [ver_local EXCEPT ![t].n = l.n + 1]
                /\ UNCHANGED ver_pc
    /\ UNCHANGED <<secure_vars, agg_vars, call_vars, version_history, registry_file, now, alive,
                   ver_call, ver_start>>

\* line 300: self.version_history = self.version_history[-keep_last_n:]
ConcClean3(t) ==
    /\ ver_pc[t] = "clean3"
    /\ version_history' = SliceTail(version_history, ver_local[t].op.keep)
    /\ ver_pc' = [ver_pc EXCEPT ![t] = "registry1"]
    /\ UNCHANGED <<secure_vars, agg_vars, call_vars, versions, blobs, registry_file,
                   now, alive, ver_call, ver_local, ver_start>>

NextVersionConc ==
    \/ Tick
    \/ \E call \in SaveCalls : SaveVersion(call)
    \/ \E op1 \in ConcSaves, op2 \in ConcSaves \cup ConcCleanups : StartConcurrent(op1, op2)
    \/ \E t \in Threads : ConcSave1(t)
    \/ \E t \in Threads : ConcSave2(t)
    \/ \E t \in Threads : ConcSave3(t)
    \/ \E t \in Threads : ConcRegistry1(t)
    \/ \E t \in Threads : ConcRegistry2(t)
    \/ \E t \in Threads : ConcClean1(t)
    \/ \E t \in Threads : ConcClean2(t)
    \/ \E t \in Threads : ConcClean3(t)

SpecVersionConc == InitVersion /\ [][NextVersionConc]_vars

(***************************************************************************)
(* ModelAggregator (model_aggregator.py).  A float is the exact fraction   *)
(* <<numerator, denominator>> in lowest terms; the rounding of float32     *)
(* arithmetic is outside the model.                                        *)
(***************************************************************************)
Abs(x) == IF x < 0 THEN -x ELSE x

RECURSIVE Gcd(_, _)
Gcd(a, b) == IF b = 0 THEN a ELSE Gcd(b, a % b)

\* the fraction n/d, d > 0, in lowest terms
Rat(n, d) == LET g == Gcd(Abs(n), d) IN <<n \div g, d \div g>>

RatAdd(a, b) == Rat(a[1] * b[2] + b[1] * a[2], a[2] * b[2])

\* a * (num_samples / total_samples)
RatScale(a, num_samples, total_samples) == Rat(a[1] * num_samples, a[2] * total_samples)

RatLess(a, b) == a[1] * b[2] < b[1] * a[2]

\* a state dict of integer values as a state dict of floats
AsFloat(model) ==
    [n \in 1..Len(model) |->
        <<model[n][1], [k \in 1..Len(model[n][2]) |-> <<model[n][2][k], 1>>]>>]

\* a client model without layer 2, and one whose layer 1 has another shape
ModelOneLayer == << <<1, <<1, 2>>>> >>
ModelOtherShape == << <<1, <<4>>>>, <<2, <<3>>>> >>

\* the state dicts clients send
UpdateModels == {AsFloat(ModelA), AsFloat(ModelB), AsFloat(ModelOneLayer),
                 AsFloat(ModelOtherShape)}
GlobalModels == {AsFloat(ModelA), AsFloat(ModelB)}
SampleCounts == {0, 1, 3}
ClientModelLists ==
    UNION {[1..n -> UpdateModels \X SampleCounts] : n \in 0..MaxClients}

\* the methods an aggregator is constructed with; the last one is unknown
Methods == {"fedavg", "weighted_avg", "median", "trimmed_mean"}

Returned(model) == [raised |-> None, model |-> model]
Raised(error) == [raised |-> error, model |-> <<>>]

RECURSIVE TotalSamples(_, _)
\* sum(num_samples for _, num_samples in client_models), from index i on
TotalSamples(client_models, i) ==
    IF i > Len(client_models) THEN 0
    ELSE client_models[i][2] + TotalSamples(client_models, i + 1)

\* torch.zeros_like of every parameter of a state dict
ZerosLike(model) ==
    [n \in 1..Len(model) |->
        <<model[n][1], [k \in 1..Len(model[n][2]) |-> <<0, 1>>]>>]

\* model[key] = tensor for a key of the model
SetParam(model, key, tensor) ==
    [n \in 1..Len(model) |-> IF model[n][1] = key THEN <<key, tensor>> ELSE model[n]]

RECURSIVE FedavgKeys(_, _, _, _, _)
\* the inner loop of _federated_averaging from the j-th key of model_state on:
\* aggregated_model[key] += model_state[key] * weight.  A key the first
\* client lacks is a KeyError; the in-place add broadcasts a tensor of one
\* element and fails on any other shape difference.
FedavgKeys(aggregated_model, model_state, num_samples, total_samples, j) ==
    IF j > Len(model_state) THEN Returned(aggregated_model)
    ELSE LET key == model_state[j][1]
             t   == model_state[j][2]
         IN  IF key \notin KeySet(aggregated_model) THEN Raised("KeyError")
             ELSE LET a == Param(aggregated_model, key)
                  IN  IF Len(t) # Len(a) /\ Len(t) # 1 THEN Raised("RuntimeError")
                      ELSE FedavgKeys(
                             SetParam(aggregated_model, key,
                                 [k \in 1..Len(a) |->
                                     RatAdd(a[k], RatScale(t[IF Len(t) = 1 THEN 1 ELSE k],
                                                           num_samples, total_samples))]),
                             model_state, num_samples, total_samples, j + 1)

RECURSIVE FedavgClients(_, _, _, _)
\* the outer loop of _federated_averaging from the i-th client on
FedavgClients(aggregated_model, client_models, total_samples, i) ==
    IF i > Len(client_models) THEN Returned(aggregated_model)
    ELSE IF total_samples = 0 THEN Raised("ZeroDivisionError")
    ELSE LET r == FedavgKeys(aggregated_model, client_models[i][1], client_models[i][2],
                             total_samples, 1)
         IN  IF r.raised # None THEN r
             ELSE FedavgClients(r.model, client_models, total_samples, i + 1)

federated_averaging(client_models) ==
    FedavgClients(ZerosLike(client_models[1][1]), client_models,
                  TotalSamples(client_models, 1), 1)

weighted_averaging(client_models) == federated_averaging(client_models)

\* a median that takes the greatest value
GreatestValue(vals) ==
    CHOOSE v \in Range(vals) : \A i \in 1..Len(vals) : ~RatLess(v, vals[i])

\* torch.median of a list of values: the lower of the two middle values when
\* their number is even
LowerMedian(vals) ==
    LET n == Len(vals)
        below(v) == Cardinality({i \in 1..n : RatLess(vals[i], v)})
        upto(v)  == Cardinality({i \in 1..n : ~RatLess(v, vals[i])})
    IN  CHOOSE v \in Range(vals) :
            below(v) <= (n - 1) \div 2 /\ upto(v) >= (n - 1) \div 2 + 1

RECURSIVE MedianKeys(_, _, _)
\* the loop of _median_aggregation from the j-th key of the first client on:
\* model_state[key] of a client without the key is a KeyError, torch.stack
\* of tensors of different shapes fails
MedianKeys(aggregated_model, client_models, j) ==
    LET first == client_models[1][1]
        N     == 1..Len(client_models)
    IN  IF j > Len(first) THEN Returned(aggregated_model)
        ELSE LET key == first[j][1]
             IN  IF \E i \in N : key \notin KeySet(client_models[i][1])
                 THEN Raised("KeyError")
                 ELSE IF \E i \in N : Len(Param(client_models[i][1], key)) # Len(first[j][2])
                 THEN Raised("RuntimeError")
                 ELSE MedianKeys(
                        Append(aggregated_model,
                               <<key, [k \in 1..Len(first[j][2]) |->
                                         LowerMedian([i \in N |->
                                             Param(client_models[i][1], key)[k]])]>>),
                        client_models, j + 1)

median_aggregation(client_models) == MedianKeys(<<>>, client_models, 1)

\* lines 40-42 as "no record": the warning is logged, the history is kept
EmptyHistoryRecorded(method, history) ==
    Append(history, [num_clients |-> 0, total_samples |-> 0, method |-> method])

\* lines 40-42: the history an empty client_models leaves
EmptyHistory(method, history) == history

\* an aggregate_models that runs _federated_averaging for an unknown method
AggregateModelsDefaultFedavg(method, history, client_models, global_model) ==
    IF client_models = <<>>
    THEN [history |-> history, ret |-> Returned(global_model)]
    ELSE LET aggregated == IF method = "median" THEN median_aggregation(client_models)
                           ELSE federated_averaging(client_models)
         IN  IF aggregated.raised # None THEN [history |-> history, ret |-> aggregated]
             ELSE [history |-> Append(history,
                                 [num_clients |-> Len(client_models),
                                  total_samples |-> TotalSamples(client_models, 1),
                                  method |-> method]),
                   ret |-> aggregated]

\* the record of lines 56-60
HistoryRecord(method, client_models) ==
    [num_clients |-> Len(client_models),
     total_samples |-> TotalSamples(client_models, 1),
     method |-> method]

\* an aggregate_models that records the round before it aggregates
AggregateModelsRecordFirst(method, history, client_models, global_model) ==
    IF client_models = <<>>
    THEN [history |-> history, ret |-> Returned(global_model)]
    ELSE IF method \notin {"fedavg", "weighted_avg", "median"}
    THEN [history |-> history, ret |-> Raised("ValueError")]
    ELSE [history |-> Append(history, HistoryRecord(method, client_models)),
          ret |-> IF method = "median" THEN median_aggregation(client_models)
                  ELSE federated_averaging(client_models)]

\* aggregate_models: the history it leaves and what it returns or raises
aggregate_models(method, history, client_models, global_model) ==
    IF client_models = <<>>
    THEN [history |-> EmptyHistory(method, history), ret |-> Returned(global_model)]
    ELSE IF method \notin {"fedavg", "weighted_avg", "median"}
    THEN [history |-> history, ret |-> Raised("ValueError")]
    ELSE LET aggregated == IF method = "fedavg" THEN federated_averaging(client_models)
                           ELSE IF method = "weighted_avg"
                           THEN weighted_averaging(client_models)
                           ELSE median_aggregation(client_models)
         IN  IF aggregated.raised # None THEN [history |-> history, ret |-> aggregated]
             ELSE [history |-> Append(history,
                                 [num_clients |-> Len(client_models),
                                  total_samples |-> TotalSamples(client_models, 1),
                                  method |-> method]),
                   ret |-> aggregated]

InitAgg ==
    /\ IdleSecure /\ IdleVersion /\ IdleCalls
    /\ aggregation_method \in Methods
    /\ aggregation_history = <<>>
    /\ agg_call = [op |-> "init", client_models |-> <<>>, global_model |-> <<>>]
    /\ agg_ret = [raised |-> None, model |-> <<>>]
    /\ outlier_call = [op |-> "init", client_models |-> <<>>, threshold |-> <<0, 1>>,
                       raised |-> None, ret |-> <<>>]

AggregateModels(client_models, global_model) ==
    /\ Len(aggregation_history) < MaxRounds
    /\ LET r == aggregate_models(aggregation_method, aggregation_history,
                                 client_models, global_model)
       IN  /\ aggregation_history' = r.history
           /\ agg_ret' = r.ret
    /\ agg_call' = [op |-> "aggregate_models", client_models |-> client_models,
                    global_model |-> global_model]
    /\ UNCHANGED <<secure_vars, version_vars, call_vars, aggregation_method, outlier_call>>

NextAgg ==
    \E client_models \in ClientModelLists, global_model \in GlobalModels :
        AggregateModels(client_models, global_model)

SpecAgg == InitAgg /\ [][NextAgg]_vars

(***************************************************************************)
(* One aggregate_models call on up to MaxReports client models of one      *)
(* layer, some of them with values far from the others.  The arguments are *)
(* drawn when the aggregator is constructed.                               *)
(***************************************************************************)
MaxReports == 3

\* a state dict of one layer of two coordinates
Report(a, b) == << <<1, <<<<a, 1>>, <<b, 1>>>>>> >>

ReportModels == {Report(1, 2), Report(2, 100), Report(100, 1), Report(-100, 2)}

ReportLists ==
    UNION {[1..n -> ReportModels \X {1, 3}] : n \in 1..MaxReports}

InitAggCall ==
    /\ IdleSecure /\ IdleVersion /\ IdleCalls
    /\ aggregation_method \in {"fedavg", "median"}
    /\ aggregation_history = <<>>
    /\ \E client_models \in ReportLists :
          agg_call = [op |-> "init", client_models |-> client_models,
                      global_model |-> Report(0, 0)]
    /\ agg_ret = [raised |-> None, model |-> <<>>]
    /\ outlier_call = [op |-> "init", client_models |-> <<>>, threshold |-> <<0, 1>>,
                       raised |-> None, ret |-> <<>>]

AggregateCall ==
    /\ agg_call.op = "init"
    /\ AggregateModels(agg_call.client_models, agg_call.global_model)

NextAggCall == AggregateCall

SpecAggCall == InitAggCall /\ [][NextAggCall]_vars

(***************************************************************************)
(* verify_client_contribution of SecureAggregationProtocol.  SHA-256 is    *)
(* taken injective: the digest is modelled by the bytes hashed.            *)
(***************************************************************************)
\* a hash of the first layer only
HashFirstLayerOnly(model) ==
    ConcatParams(model, SubSeq(SortedSeq(KeySet(model)), 1, 1), 1)

\* SecureAggregationProtocol._compute_model_hash: SHA-256 of the tensors'
\* bytes in sorted key order
secure_compute_model_hash(model) == ConcatParams(model, SortedSeq(KeySet(model)), 1)

verify_client_contribution(client_id, masked_model, commitment_hash) ==
    secure_compute_model_hash(masked_model) = commitment_hash

Coords == 0..MaxCoord

\* the masked models a client sends: layers 1 and 2 of two and one elements,
\* the same with layer 2 inserted first, and layers of one and two elements
MaskedModels ==
    {<< <<1, <<a, b>>>>, <<2, <<c>>>> >> : a \in Coords, b \in Coords, c \in Coords}
    \cup {<< <<2, <<c>>>>, <<1, <<a, b>>>> >> : a \in Coords, b \in Coords, c \in Coords}
    \cup {<< <<1, <<a>>>>, <<2, <<b, c>>>> >> : a \in Coords, b \in Coords, c \in Coords}

\* the commitments a client publishes: the hash of a masked model, or a
\* string that is no such hash
Commitments == {secure_compute_model_hash(model) : model \in MaskedModels} \cup {<<>>}

\* the pairwise secrets agreed before the call
SecretCaches == {<<>>, (<<1, 2>> :> 0), (<<1, 2>> :> MaxSeed) @@ (<<1, 3>> :> 0)}

\* the protocol holds some secrets; the arguments of the call are drawn
InitVerify ==
    /\ IdleVersion /\ IdleAgg /\ IdleCalls
    /\ shared_secrets \in SecretCaches
    /\ round_peers = <<>>
    /\ submitted = <<>>
    /\ sec_pc = None
    /\ sec_local = None
    /\ \E client_id \in {1, 2}, masked_model \in MaskedModels,
          commitment_hash \in Commitments :
            verify_call = [op |-> "init", client_id |-> client_id,
                           masked_model |-> masked_model,
                           commitment_hash |-> commitment_hash, ret |-> <<>>]

VerifyClientContribution ==
    /\ verify_call' = [verify_call EXCEPT
                          !.op = "verify_client_contribution",
                          !.ret = <<verify_client_contribution(verify_call.client_id,
                                        verify_call.masked_model,
                                        verify_call.commitment_hash)>>]
    /\ UNCHANGED <<version_vars, agg_vars, call_vars, shared_secrets, round_peers, submitted,
                   sec_pc, sec_local>>

NextVerify == VerifyClientContribution

SpecVerify == InitVerify /\ [][NextVerify]_vars

(***************************************************************************)
(* The two _compute_model_hash methods (model_versioning.py and            *)
(* secure_aggregation.py) on pairs of state dicts.                         *)
(***************************************************************************)
\* the state dicts hashed: the masked models, and the ones of layers 1 and 2
\* with layer 2 under the name 3
HashModels ==
    MaskedModels
    \cup {<< <<1, <<a, b>>>>, <<3, <<c>>>> >> : a \in Coords, b \in Coords, c \in Coords}

InitHash ==
    /\ IdleSecure /\ IdleVersion /\ IdleAgg
    /\ dp_call = [op |-> "init", epsilon |-> <<1, 1>>, delta |-> <<1, 100000>>,
                  gradients |-> <<>>, clip_norm |-> <<1, 1>>,
                  noise_scale |-> <<0, 1>>, ret |-> <<>>]
    /\ dp_prev = [op |-> "init", epsilon |-> <<1, 1>>, delta |-> <<1, 100000>>,
                  clip_norm |-> <<1, 1>>, noise_scale |-> <<0, 1>>]
    /\ unmask_call = [op |-> "init", aggregated_model |-> <<>>,
                      active_clients |-> <<>>, ret |-> <<>>]
    /\ \E model1 \in HashModels, model2 \in HashModels :
          hash_call = [op |-> "init", model1 |-> model1, model2 |-> model2,
                       versioning |-> <<>>, secure |-> <<>>]

ComputeModelHash ==
    /\ hash_call.op = "init"
    /\ hash_call' = [hash_call EXCEPT
          !.op = "_compute_model_hash",
          !.versioning = <<compute_model_hash(hash_call.model1),
                           compute_model_hash(hash_call.model2)>>,
          !.secure = <<secure_compute_model_hash(hash_call.model1),
                       secure_compute_model_hash(hash_call.model2)>>]
    /\ UNCHANGED <<secure_vars, version_vars, agg_vars, dp_call, dp_prev, unmask_call>>

NextHash == ComputeModelHash

SpecHash == InitHash /\ [][NextHash]_vars

(***************************************************************************)
(* Outlier detection of ModelAggregator.  The client models of this part   *)
(* have parameter vectors of rational norm, on which the square root of    *)
(* the cosine similarity is exact.                                         *)
(***************************************************************************)
RatMul(a, b) == Rat(a[1] * b[1], a[2] * b[2])

\* a / b for b > 0
RatDiv(a, b) == Rat(a[1] * b[2], a[2] * b[1])

RECURSIVE RatSum(_, _)
\* the sum of the values i.. of a list
RatSum(vals, i) ==
    IF i > Len(vals) THEN <<0, 1>> ELSE RatAdd(vals[i], RatSum(vals, i + 1))

\* the square root of a perfect square
Isqrt(n) == CHOOSE r \in 0..n : r * r = n

RatSqrt(a) == <<Isqrt(a[1]), Isqrt(a[2])>>

RECURSIVE Flatten(_, _)
\* torch.cat([p.flatten() for p in model.values()]), from the n-th layer on
Flatten(model, n) ==
    IF n > Len(model) THEN <<>> ELSE model[n][2] \o Flatten(model, n + 1)

Dot(x, y) == RatSum([k \in 1..Len(x) |-> RatMul(x[k], y[k])], 1)

\* compute_model_similarity: x.y / (|x| |y|), 0 when a norm is 0 (the
\* denominator is clamped to eps); a vector of one element is broadcast,
\* any other difference of lengths is an error
compute_model_similarity(model1, model2) ==
    LET params1 == Flatten(model1, 1)
        params2 == Flatten(model2, 1)
    IN  IF Len(params1) # Len(params2) /\ Len(params1) # 1 /\ Len(params2) # 1
        THEN [raised |-> "RuntimeError", value |-> <<0, 1>>]
        ELSE LET n == Max(Len(params1), Len(params2))
                 x == [k \in 1..n |-> params1[IF Len(params1) = 1 THEN 1 ELSE k]]
                 y == [k \in 1..n |-> params2[IF Len(params2) = 1 THEN 1 ELSE k]]
                 w == RatMul(RatSqrt(Dot(x, x)), RatSqrt(Dot(y, y)))
             IN  [raised |-> None,
                  value |-> IF w[1] = 0 THEN <<0, 1>> ELSE RatDiv(Dot(x, y), w)]

\* np.mean(similarities[i, :]): the row holds 0 at column i and the
\* similarity to client j at every other column; i, j count from 1 here
RowMean(client_models, i) ==
    LET n == Len(client_models)
        row == [j \in 1..n |->
                  IF j = i THEN <<0, 1>>
                  ELSE compute_model_similarity(client_models[i][1],
                                                client_models[j][1]).value]
    IN  RatDiv(RatSum(row, 1), <<n, 1>>)

\* detect_outlier_clients: the indices, from 0, in ascending order
detect_outlier_clients(client_models, threshold) ==
    LET n == Len(client_models)
    IN  IF n < 3 THEN [raised |-> None, ret |-> <<>>]
        ELSE IF \E i, j \in 1..n :
                    compute_model_similarity(client_models[i][1],
                                             client_models[j][1]).raised # None
        THEN [raised |-> "RuntimeError", ret |-> <<>>]
        ELSE [raised |-> None,
              ret |-> SortedSeq({i - 1 : i \in {k \in 1..n :
                                   RatLess(RowMean(client_models, k), threshold)}})]

RECURSIVE FilterFrom(_, _, _)
\* [client_models[i] for i in range(len(client_models)) if i not in
\* outlier_indices], from index i (counted from 0) on
FilterFrom(client_models, outlier_indices, i) ==
    IF i >= Len(client_models) THEN <<>>
    ELSE (IF i \in Range(outlier_indices) THEN <<>> ELSE <<client_models[i + 1]>>)
         \o FilterFrom(client_models, outlier_indices, i + 1)

\* a filter that reads the indices as counted from 1
FilterOutliersFromOne(client_models, threshold) ==
    LET outlier_indices == detect_outlier_clients(client_models, threshold)
    IN  [raised |-> outlier_indices.raised,
         ret |-> FilterFrom(client_models, [k \in 1..Len(outlier_indices.ret) |->
                                               outlier_indices.ret[k] + 1], 0)]

\* filter_outliers
filter_outliers(client_models, threshold) ==
    LET outlier_indices == detect_outlier_clients(client_models, threshold)
    IN  IF outlier_indices.raised # None THEN outlier_indices
        ELSE IF outlier_indices.ret = <<>> THEN [raised |-> None, ret |-> client_models]
        ELSE [raised |-> None, ret |-> FilterFrom(client_models, outlier_indices.ret, 0)]

\* the client models given to the outlier detection: flattened they are
\* (1,0,0), (2,2,1), (0,1,0), (-1,0,0) and, of another length, (3,4)
OutlierModels ==
    {AsFloat(<< <<1, <<1, 0>>>>, <<2, <<0>>>> >>),
     AsFloat(<< <<1, <<2, 2>>>>, <<2, <<1>>>> >>),
     AsFloat(<< <<1, <<0, 1>>>>, <<2, <<0>>>> >>),
     AsFloat(<< <<1, <<-1, 0>>>>, <<2, <<0>>>> >>),
     AsFloat(<< <<1, <<3, 4>>>> >>)}

\* threshold: the default 0.3, 0.5 and the permissive -1
Thresholds == {<<3, 10>>, <<1, 2>>, <<-1, 1>>}

OutlierLists == UNION {[1..n -> OutlierModels \X {1}] : n \in 0..MaxDetect}

\* the arguments of the call are drawn when the aggregator is constructed
InitOutlier ==
    /\ IdleSecure /\ IdleVersion /\ IdleCalls
    /\ aggregation_method = None
    /\ aggregation_history = <<>>
    /\ agg_call = [op |-> "init", client_models |-> <<>>, global_model |-> <<>>]
    /\ agg_ret = [raised |-> None, model |-> <<>>]
    /\ \E client_models \in OutlierLists, threshold \in Thresholds :
          outlier_call = [op |-> "init", client_models |-> client_models,
                          threshold |-> threshold, raised |-> None, ret |-> <<>>]

DetectOutlierClients ==
    /\ LET r == detect_outlier_clients(outlier_call.client_models, outlier_call.threshold)
       IN  outlier_call' = [outlier_call EXCEPT !.op = "detect_outlier_clients",
                                                !.raised = r.raised, !.ret = r.ret]
    /\ UNCHANGED <<secure_vars, version_vars, call_vars, aggregation_method, aggregation_history,
                   agg_call, agg_ret>>

FilterOutliers ==
    /\ LET r == filter_outliers(outlier_call.client_models, outlier_call.threshold)
       IN  outlier_call' = [outlier_call EXCEPT !.op = "filter_outliers",
                                                !.raised = r.raised, !.ret = r.ret]
    /\ UNCHANGED <<secure_vars, version_vars, call_vars, aggregation_method, aggregation_history,
                   agg_call, agg_ret>>

NextOutlier ==
    \/ DetectOutlierClients
    \/ FilterOutliers

SpecOutlier == InitOutlier /\ [][NextOutlier]_vars

(***************************************************************************)
(* DifferentialPrivacy (secure_aggregation.py).  np.log is a table of the  *)
(* natural logarithm to three decimals on the arguments that occur, and    *)
(* np.sqrt of the noise multiplier is rounded down to one decimal; all     *)
(* other arithmetic is exact.                                              *)
(***************************************************************************)
\* np.log(x) for x = 1.25 / delta
NpLog(x) ==
    CASE x = <<125000, 1>> -> Rat(11736, 1000)
      [] x = <<1250, 1>>   -> Rat(7131, 1000)
      [] x = <<25, 2>>     -> Rat(2526, 1000)

RECURSIVE SqrtSearch(_, _, _)
\* the largest r in lo..hi with r * r <= n
SqrtSearch(n, lo, hi) ==
    IF lo = hi THEN lo
    ELSE LET mid == (lo + hi + 1) \div 2
         IN  IF mid * mid <= n THEN SqrtSearch(n, mid, hi)
                               ELSE SqrtSearch(n, lo, mid - 1)

\* np.sqrt(a) for a >= 0
NpSqrt(a) == LET n == (a[1] * 100) \div a[2] IN Rat(SqrtSearch(n, 0, n), 10)

\* a mutation of _compute_noise_scale: the multiplier is multiplied by epsilon
NoiseScaleTimesEpsilon(epsilon, delta, sensitivity) ==
    RatMul(RatMul(sensitivity,
                  NpSqrt(RatMul(<<2, 1>>, NpLog(RatDiv(<<5, 4>>, delta))))),
           epsilon)

\* DifferentialPrivacy._compute_noise_scale
compute_noise_scale(epsilon, delta, sensitivity) ==
    RatDiv(RatMul(sensitivity,
                  NpSqrt(RatMul(<<2, 1>>, NpLog(RatDiv(<<5, 4>>, delta))))),
           epsilon)

\* grad * factor, element by element
TensorScale(grad, factor) == [k \in 1..Len(grad) |-> RatMul(grad[k], factor)]

\* DifferentialPrivacy._clip_gradients
clip_gradients(gradients, clip_norm) ==
    LET total_norm ==
            RatSqrt(RatSum([n \in 1..Len(gradients) |->
                               Dot(gradients[n][2], gradients[n][2])], 1))
        ratio == RatDiv(clip_norm, RatAdd(total_norm, <<1, 1000000>>))
        clip_factor == IF RatLess(ratio, <<1, 1>>) THEN ratio ELSE <<1, 1>>
    IN  [n \in 1..Len(gradients) |->
            <<gradients[n][1], TensorScale(gradients[n][2], clip_factor)>>]

\* the samples torch.randn_like can draw for a state dict: one standard
\* normal value per element, here -1 or 1
RandnLike(gradients) ==
    {z \in [1..Len(gradients) -> UNION {[1..m -> {<<-1, 1>>, <<1, 1>>}] : m \in 1..2}] :
        \A n \in 1..Len(gradients) : Len(z[n]) = Len(gradients[n][2])}

\* DifferentialPrivacy.add_noise_to_gradients on an object of the given
\* epsilon and delta; z holds the values torch.randn_like draws
add_noise_to_gradients(epsilon, delta, gradients, clip_norm, z) ==
    LET clipped_grads == clip_gradients(gradients, clip_norm)
        noise_scale == compute_noise_scale(epsilon, delta, clip_norm)
    IN  [noise_scale |-> noise_scale,
         ret |-> [n \in 1..Len(clipped_grads) |->
                     <<clipped_grads[n][1],
                       [k \in 1..Len(clipped_grads[n][2]) |->
                           RatAdd(clipped_grads[n][2][k],
                                  RatMul(z[n][k], noise_scale))]>>]]

Epsilons == {<<1, 10>>, <<1, 1>>, <<10, 1>>}

Deltas == {<<1, 100000>>, <<1, 1000>>, <<1, 10>>}

ClipNorms == {<<1, 2>>, <<1, 1>>, <<2, 1>>}

\* gradients of global norm 5 and of global norm 0
GradientDicts ==
    {<<<<"fc.bias", <<<<3, 1>>>>>>, <<"fc.weight", <<<<4, 1>>>>>>>>,
     <<<<"fc.bias", <<<<0, 1>>>>>>, <<"fc.weight", <<<<0, 1>>>>>>>>}

\* DifferentialPrivacy(epsilon, delta) is constructed and the arguments of
\* its add_noise_to_gradients call are chosen
InitDp ==
    /\ IdleSecure /\ IdleVersion /\ IdleAgg
    /\ \E epsilon \in Epsilons, delta \in Deltas, gradients \in GradientDicts,
          clip_norm \in ClipNorms :
          dp_call = [op |-> "new", epsilon |-> epsilon, delta |-> delta,
                     gradients |-> gradients, clip_norm |-> clip_norm,
                     noise_scale |-> <<0, 1>>, ret |-> <<>>]
    /\ dp_prev = [op |-> "init", epsilon |-> <<1, 1>>, delta |-> <<1, 100000>>,
                  clip_norm |-> <<1, 1>>, noise_scale |-> <<0, 1>>]
    /\ unmask_call = [op |-> "init", aggregated_model |-> <<>>,
                      active_clients |-> <<>>, ret |-> <<>>]
    /\ hash_call = [op |-> "init", model1 |-> <<>>, model2 |-> <<>>,
                    versioning |-> <<>>, secure |-> <<>>]

AddNoiseToGradients ==
    /\ dp_call.op = "new"
    /\ \E z \in RandnLike(dp_call.gradients) :
          LET r == add_noise_to_gradients(dp_call.epsilon, dp_call.delta,
                                          dp_call.gradients, dp_call.clip_norm, z)
          IN  dp_call' = [dp_call EXCEPT !.op = "add_noise_to_gradients",
                                         !.noise_scale = r.noise_scale,
                                         !.ret = r.ret]
    /\ UNCHANGED <<secure_vars, version_vars, agg_vars, dp_prev, unmask_call, hash_call>>

\* a second DifferentialPrivacy object is constructed for a second call
NewDifferentialPrivacy ==
    /\ dp_call.op = "add_noise_to_gradients"
    /\ dp_prev.op = "init"
    /\ dp_prev' = [op |-> "add_noise_to_gradients", epsilon |-> dp_call.epsilon,
                   delta |-> dp_call.delta, clip_norm |-> dp_call.clip_norm,
                   noise_scale |-> dp_call.noise_scale]
    /\ \E epsilon \in Epsilons, delta \in Deltas, gradients \in GradientDicts,
          clip_norm \in ClipNorms :
          dp_call' = [op |-> "new", epsilon |-> epsilon, delta |-> delta,
                      gradients |-> gradients, clip_norm |-> clip_norm,
                      noise_scale |-> <<0, 1>>, ret |-> <<>>]
    /\ UNCHANGED <<secure_vars, version_vars, agg_vars, unmask_call, hash_call>>

NextDp ==
    \/ AddNoiseToGradients
    \/ NewDifferentialPrivacy

SpecDp == InitDp /\ [][NextDp]_vars

(***************************************************************************)
(* Claims on SecureAggregationProtocol                                     *)
(***************************************************************************)
\* the round's participants: the clients the peer list names
RoundClients == Range(round_peers)

\* every participant has masked its model against the round's peer list
RoundComplete ==
    NoDuplicates(round_peers) /\ \A c \in RoundClients : c \in DOMAIN submitted

\* the sum over the participants of element k of a layer
LayerSum(field, layer, k) ==
    SetSum([c \in RoundClients |-> Param(submitted[c][field], layer)[k]], RoundClients)

\* C1: when every client of a round has masked its raw model against the same
\* peer list (the full client set, itself included or not), the layer-wise
\* sum of the masked models equals the layer-wise sum of the raw models,
\* whatever secrets were drawn.
C1_MaskCancellation ==
    RoundComplete =>
        \A c \in RoundClients : \A layer \in KeySet(submitted[c].raw) :
            \A k \in 1..Len(Param(submitted[c].raw, layer)) :
                LayerSum("masked", layer, k) = LayerSum("raw", layer, k)

\* C1 witness: three clients have masked, with a mask that changed a model
C1_Witness ==
    /\ RoundComplete
    /\ Cardinality(RoundClients) = 3
    /\ \E c \in RoundClients : submitted[c].masked # submitted[c].raw
    /\ \E k1, k2 \in DOMAIN shared_secrets : shared_secrets[k1] # shared_secrets[k2]

\* C2: callers that ran generate_pairwise_secret concurrently for one pair
\* all return the same bytes, and they are the bytes left in the cache.
C2_ConcurrentCallersAgree ==
    \A t1, t2 \in Threads :
        (sec_pc[t1] = "done" /\ sec_pc[t2] = "done"
            /\ sec_local[t1].key = sec_local[t2].key)
        => /\ sec_local[t1].ret = sec_local[t2].ret
           /\ sec_local[t1].ret = <<shared_secrets[sec_local[t1].key]>>

\* what the calls (i, j) and (j, i) return in the current state, for every
\* token either could draw
SecretReturnsAgree ==
    \A i, j \in ClientIds : \A token, token2 \in TokenBytes :
        LET key   == SortedKey(i, j)
            first == generate_pairwise_secret(shared_secrets, i, j, token)
            ret   == generate_pairwise_secret_ret(shared_secrets, i, j, token)
        IN  /\ key \in DOMAIN shared_secrets => ret = shared_secrets[key]
            /\ generate_pairwise_secret_ret(first, j, i, token2) = ret
            /\ generate_pairwise_secret_ret(first, i, j, token2) = ret

\* C3: in a sequential run of generate_pairwise_secret and mask_model calls a
\* pair's secret is created once and never overwritten, and the calls (i, j)
\* and (j, i) return that one secret every time.
C3_SecretCreatedOnce ==
    /\ []SecretReturnsAgree
    /\ [][\A key \in DOMAIN shared_secrets :
              key \in DOMAIN shared_secrets' /\ shared_secrets'[key] = shared_secrets[key]]_vars

\* C3 witness: secrets of two pairs are cached and differ
C3_Witness ==
    /\ Cardinality(DOMAIN shared_secrets) >= 2
    /\ \E k1, k2 \in DOMAIN shared_secrets : shared_secrets[k1] # shared_secrets[k2]
    /\ DOMAIN submitted # {}

\* two models of the same keys and layer shapes
SameShape(a, b) ==
    /\ KeySet(a) = KeySet(b)
    /\ \A key \in KeySet(a) : Len(Param(a, key)) = Len(Param(b, key))

\* some coordinate of some layer differs
ValueChanged(a, b) ==
    \E key \in KeySet(a) : \E k \in 1..Len(Param(a, key)) :
        Param(a, key)[k] # Param(b, key)[k]

ActiveClients == Range(unmask_call.active_clients)

DroppedClients == RoundClients \ ActiveClients

\* the server has called unmask_aggregated_model in a round whose peer list
\* names every client once and whose submissions come from that list
Unmasked ==
    /\ unmask_call.op = "unmask_aggregated_model"
    /\ NoDuplicates(round_peers)
    /\ ActiveClients \subseteq RoundClients

\* element k of layer n of the mask terms no submission cancels: over the
\* pairs (active client, dropped client), the mask of the pair with the
\* sign the active client applied
UncancelledMasks(n, k) ==
    LET pairs == ActiveClients \X DroppedClients
        shape == Len(unmask_call.aggregated_model[n][2])
    IN  SetSum([p \in pairs |->
                   MaskSign(p[1], p[2])
                     * secret_to_mask(shared_secrets[SortedKey(p[1], p[2])], shape)[k]],
               pairs)

UnmaskFullRound ==
    /\ Unmasked
    /\ Cardinality(RoundClients) = 3
    /\ ActiveClients = RoundClients
    /\ \E c \in ActiveClients : submitted[c].masked # submitted[c].raw

(***************************************************************************)
(* Claims on ModelVersionManager                                           *)
(***************************************************************************)
\* C4: a stop at any point of the registry rewrite leaves the registry file
\* whole, with its previous or its new content: a file that exists is a
\* complete document to any later reader.
C4_RegistryNeverPartial == registry_file.exists => Parses(registry_file)

\* both concurrent calls have ended
AllDone == \A t \in Threads : ver_pc[t] \in {"done", "raised"}

\* the registry, the history and the registry file of a store
RegistryView(st) == <<st.versions, st.history, st.file>>

\* the version ids the two calls create are new and differ from each other
FreshIds ==
    LET ids(op) == {VersionId(call.epoch, now) : call \in op.call}
    IN  /\ NoDuplicates(ver_start.history)
        /\ (ids(ver_local[1].op) \cup ids(ver_local[2].op)) \cap DOMAIN ver_start.versions = {}
        /\ \/ ids(ver_local[1].op) \cap ids(ver_local[2].op) = {}
           \/ ver_local[2].op.op = "cleanup"

C6_RollbackAddsVersion ==
    [][\A v1 \in DOMAIN versions :
          RollbackToVersion(v1) =>
            \E v2 \in DOMAIN versions' \ DOMAIN versions :
                /\ versions'[v2].epoch = versions[v1].epoch
                /\ versions'[v2].metrics = versions[v1].metrics
                /\ versions'[v2].model_hash = versions[v1].model_hash
                /\ versions'[v2].metadata["rollback_from"] = v1
                /\ version_history' = Append(version_history, v2)
                /\ versions'[v1] = versions[v1]]_vars

\* C7: an entry of the registry keeps the fields it was written with; no
\* step changes one, and only cleanup_old_versions removes one.
C7_EntriesImmutable ==
    [][\A id \in DOMAIN versions :
          IF id \in DOMAIN versions'
          THEN versions'[id] = versions[id]
          ELSE \E keep_last_n \in 0..MaxKeep : CleanupOldVersions(keep_last_n)]_vars

\* the last n entries of a list of more than n
LastN(s, n) == SubSeq(s, Len(s) - n + 1, Len(s))

\* C8: cleanup_old_versions(keep_last_n), keep_last_n >= 0, on a store of more
\* than keep_last_n versions leaves exactly the keep_last_n most recently
\* inserted versions in the registry, in the history (in their order) and on
\* disk, and removes the entry and the blob of every other version.
C8_CleanupKeepsLastN ==
    [][\A keep_last_n \in 0..MaxKeep :
          (Len(version_history) > keep_last_n /\ CleanupOldVersions(keep_last_n)) =>
            LET kept == LastN(version_history, keep_last_n)
            IN  /\ version_history' = kept
                /\ DOMAIN versions' = Range(kept)
                /\ \A id \in Range(kept) : versions'[id] = versions[id]
                /\ DOMAIN blobs' = {ModelPath(id) : id \in Range(kept)}]_vars

\* C9: for every version of the registry, load_version returns a model whose
\* recomputed hash is the entry's model_hash.
C9_LoadedHashMatches ==
    \A id \in DOMAIN versions :
        LET loaded == load_version(Store, id)
        IN  loaded.ok /\ compute_model_hash(loaded.model) = versions[id].model_hash

\* C9 witness: two registered versions of different hashes, one of them
\* written by a rollback
C9_Witness ==
    /\ \E a, b \in DOMAIN versions : versions[a].model_hash # versions[b].model_hash
    /\ \E id \in DOMAIN versions : "rollback_from" \in DOMAIN versions[id].metadata
    /\ \A id \in DOMAIN versions : load_version(Store, id).ok

\* the versions of the registry that have the metric
Having(metric) == {id \in DOMAIN versions : metric \in DOMAIN versions[id].metrics}

\* the last call returned a registry version of optimal metric value
ReturnedOptimum(metric) ==
    /\ ver_call.ret[1] = "version"
    /\ \E id \in Having(metric) :
          /\ versions[id] = ver_call.ret[2]
          /\ \A other \in Having(metric) :
                IF metric = "loss"
                THEN versions[id].metrics[metric] <= versions[other].metrics[metric]
                ELSE versions[id].metrics[metric] >= versions[other].metrics[metric]

\* C18: get_best_version(metric) returns None if and only if no version of
\* the registry has the metric; otherwise it returns a registry version whose
\* value of the metric is the maximum over the versions having it, the
\* minimum for "loss".
C18_BestVersionIsOptimum ==
    ver_call.op = "get_best_version" =>
        LET metric == ver_call.arg[1]
        IN  IF Having(metric) = {} THEN ver_call.ret = <<"None">>
            ELSE ReturnedOptimum(metric)

\* get_best_version returns the optimum when some version has a finite value
\* of the metric
BestVersionFinite ==
    ver_call.op = "get_best_version" =>
        LET metric == ver_call.arg[1]
        IN  IF Having(metric) = {} THEN ver_call.ret = <<"None">>
            ELSE (\E id \in Having(metric) : versions[id].metrics[metric] # Inf)
                    => ReturnedOptimum(metric)

\* C19: load_version, rollback_to_version and compare_versions given a
\* version that is not in the registry return None, False and the error dict,
\* raise nothing and leave the registry, the history, the registry file and
\* the blobs as they were.
C19_UnknownVersionNotFound ==
    /\ []((ver_call.op = "load_version" /\ ver_call.arg \notin DOMAIN versions)
             => ver_call.ret = <<"None">>)
    /\ []((ver_call.op = "rollback_to_version" /\ ver_call.arg \notin DOMAIN versions)
             => ver_call.ret = <<"bool", FALSE>>)
    /\ []((/\ ver_call.op = "compare_versions"
            /\ \E k \in 1..2 : ver_call.arg[k] \notin DOMAIN versions)
             => /\ ver_call.ret[1] = "dict"
                /\ DOMAIN ver_call.ret[2] = {"error"})
    /\ [][\A version \in AllVersionIds \ DOMAIN versions :
             (\/ LoadVersion(version)
              \/ RollbackToVersion(version)
              \/ \E other \in AllVersionIds :
                    CompareVersions(version, other) \/ CompareVersions(other, version))
             => UNCHANGED <<versions, version_history, blobs, registry_file>>]_vars

\* C19 witness: a rollback to an unknown version on a store of two versions
C19_Witness ==
    /\ ver_call.op = "rollback_to_version" /\ ver_call.arg \notin DOMAIN versions
    /\ ver_call.ret = <<"bool", FALSE>>
    /\ Cardinality(DOMAIN versions) = 2
    /\ registry_file.exists

\* C26: get_latest_version returns None exactly when the history is empty
\* and otherwise the registry entry of the last id of the history; that
\* entry is the one the last successful save_version or rollback_to_version
\* wrote (a save or a rollback makes its new entry the latest, with the hash
\* of the rolled-back version, and no other call changes the latest).
C26_LatestIsLastWritten ==
    /\ [](ver_call.op = "get_latest_version" =>
            (/\ (ver_call.ret = <<"None">>) <=> (version_history = <<>>)
             /\ (version_history # <<>>) =>
                   (/\ version_history[Len(version_history)] \in DOMAIN versions
                    /\ ver_call.ret =
                          <<"version", versions[version_history[Len(version_history)]]>>)))
    /\ [][(\A call \in SaveCalls :
              SaveVersion(call) =>
                 (<<ver_call'.ret[2]>> = get_latest_version(Store)'))
          /\ (\A v \in DOMAIN versions :
                RollbackToVersion(v) =>
                   (/\ get_latest_version(Store)' # <<>>
                    /\ get_latest_version(Store)'[1].metadata["rollback_from"] = v
                    /\ get_latest_version(Store)'[1].model_hash = versions[v].model_hash))
          /\ (((\E keep_last_n \in 0..MaxKeep : CleanupOldVersions(keep_last_n))
                 \/ (\E v \in AllVersionIds \ DOMAIN versions : RollbackToVersion(v)))
                => (get_latest_version(Store)' = get_latest_version(Store)))]_vars

\* get_latest_version returns None for an empty history, and the entry of
\* the last id of the history whenever the registry holds that id
LatestWhenRegistered ==
    ver_call.op = "get_latest_version" =>
        (/\ (version_history = <<>>) => (ver_call.ret = <<"None">>)
         /\ (version_history # <<>>
               /\ version_history[Len(version_history)] \in DOMAIN versions)
               => (ver_call.ret =
                     <<"version", versions[version_history[Len(version_history)]]>>))

\* the history holds no id twice and its ids are the keys of the registry
UniqueIds ==
    NoDuplicates(version_history) /\ Range(version_history) = DOMAIN versions

\* the same on stores of unique ids: get_latest_version returns None
\* exactly for an empty history, and no cleanup_old_versions or failed
\* rollback changes the latest version
LatestWithUniqueIds ==
    /\ []((ver_call.op = "get_latest_version" /\ UniqueIds) =>
            ((ver_call.ret = <<"None">>) <=> (version_history = <<>>)))
    /\ [][(UniqueIds
            /\ ((\E keep_last_n \in 1..MaxKeep : CleanupOldVersions(keep_last_n))
                  \/ (\E v \in AllVersionIds \ DOMAIN versions : RollbackToVersion(v))))
                => (get_latest_version(Store)' = get_latest_version(Store))]_vars

\* C27: in every state save_version, rollback_to_version and
\* cleanup_old_versions reach, the history holds no version id twice and its
\* elements are the keys of the registry; and every save_version creates an
\* id that was not in the registry.
C27_VersionIdsUnique ==
    /\ [](/\ NoDuplicates(version_history)
          /\ Range(version_history) = DOMAIN versions)
    /\ [][\A call \in SaveCalls :
            SaveVersion(call) => ver_call'.ret[2].version \notin DOMAIN versions]_vars

\* calls in different clock seconds, or for different epochs within one
\* second, keep the ids unique: the history has a duplicate only if two
\* writes of one epoch fell into one second
DuplicateOnlyWithinSecond ==
    [][(NoDuplicates(version_history) /\ ~NoDuplicates(version_history'))
          => \E k \in 1..Len(version_history) :
                version_history[k] = VersionId(version_history[k][1], now)]_vars

\* the last call was a save_version, rollback_to_version or
\* cleanup_old_versions that returned
CompletedWrite ==
    /\ ver_call.op \in {"save_version", "rollback_to_version", "cleanup_old_versions"}
    /\ ver_call.ret # <<"KeyError">>

\* the registry file, if there is one, is the dump of the registry and the
\* history in memory, and a manager constructed on the directory starts
\* with that registry (every field of every entry) and that history
RegistryFileIsMemory ==
    /\ registry_file.exists =>
          registry_file.chunks = RegistryData(versions, version_history)
    /\ load_version_registry(registry_file) =
          [versions |-> versions, history |-> version_history]

\* C28: after each save_version, rollback_to_version or cleanup_old_versions
\* that returned, the registry file holds the versions and the history in
\* memory, and a manager constructed on the same directory starts with the
\* same entries in the same history order.
C28_RegistryFileMatchesMemory == CompletedWrite => RegistryFileIsMemory

\* the same for calls on a store of unique ids
RegistryFileWithUniqueIds == (CompletedWrite /\ UniqueIds) => RegistryFileIsMemory

(***************************************************************************)
(* Claims on ModelAggregator                                               *)
(***************************************************************************)
\* C10: aggregate_models called with an empty client_models returns the
\* global model it was given, raises nothing, and leaves the aggregation
\* history as it was.
C10_EmptyUpdatesReturnGlobal ==
    /\ []((agg_call.op = "aggregate_models" /\ agg_call.client_models = <<>>) =>
             agg_ret = [raised |-> None, model |-> agg_call.global_model])
    /\ [][\A global_model \in GlobalModels :
             AggregateModels(<<>>, global_model) =>
                aggregation_history' = aggregation_history]_vars

\* C10 witness: an empty call after a recorded round, whose result was not
\* the global model the empty call was given
C10_Witness ==
    /\ agg_call.op = "aggregate_models" /\ agg_call.client_models = <<>>
    /\ aggregation_history # <<>>
    /\ agg_ret = [raised |-> None, model |-> agg_call.global_model]

\* the last step was an aggregate_models call on a non-empty client_models
NonEmptyCall == agg_call.op = "aggregate_models" /\ agg_call.client_models # <<>>

\* some two client models differ in their key sets or in the shape of a layer
Mismatched(client_models) ==
    \E i, j \in 1..Len(client_models) :
        LET a == client_models[i][1]
            b == client_models[j][1]
        IN  \/ KeySet(a) # KeySet(b)
            \/ \E key \in KeySet(a) \cap KeySet(b) : Len(Param(a, key)) # Len(Param(b, key))

\* C11: aggregate_models on a non-empty client_models in which two models
\* differ in key set or layer shape raises an error for every method, returns
\* no model and leaves the aggregation history as it was.
C11_MismatchFails ==
    /\ []((NonEmptyCall /\ Mismatched(agg_call.client_models)) =>
             (agg_ret.raised # None /\ agg_ret.model = <<>>))
    /\ [][Mismatched(agg_call'.client_models) =>
             aggregation_history' = aggregation_history]_vars

UnknownMethod == aggregation_method \notin {"fedavg", "weighted_avg", "median"}

C13_HistoryRecordsSuccesses ==
    [][IF agg_ret'.raised = None /\ agg_call'.client_models # <<>>
       THEN aggregation_history' =
                Append(aggregation_history,
                       [num_clients |-> Len(agg_call'.client_models),
                        total_samples |-> TotalSamples(agg_call'.client_models, 1),
                        method |-> aggregation_method])
       ELSE aggregation_history' = aggregation_history]_vars

\* C13 witness: two recorded rounds of different sizes, the second one
\* recorded by the last call
C13_Witness ==
    /\ NonEmptyCall
    /\ Len(aggregation_history) = 2
    /\ aggregation_history[1].num_clients # aggregation_history[2].num_clients
    /\ aggregation_history[2].num_clients = Len(agg_call.client_models)
    /\ agg_ret.raised = None

\* the last step called the method on same-shaped client models
SameShapedCall(method) ==
    /\ NonEmptyCall /\ aggregation_method = method
    /\ ~Mismatched(agg_call.client_models)

RECURSIVE SampleWeightedSum(_, _, _, _)
\* the sum over the clients i.. of num_samples times the client's value at
\* coordinate k of the layer
SampleWeightedSum(client_models, key, k, i) ==
    IF i > Len(client_models) THEN <<0, 1>>
    ELSE LET v == Param(client_models[i][1], key)[k]
         IN  RatAdd(Rat(client_models[i][2] * v[1], v[2]),
                    SampleWeightedSum(client_models, key, k, i + 1))

\* the returned model has the layers of the first client and, at every
\* coordinate, the sample-weighted mean of the clients' values
IsWeightedMean(model, client_models) ==
    LET first == client_models[1][1]
        total == TotalSamples(client_models, 1)
    IN  /\ KeySet(model) = KeySet(first)
        /\ \A key \in KeySet(first) :
              /\ Len(Param(model, key)) = Len(Param(first, key))
              /\ \A k \in 1..Len(Param(first, key)) :
                    LET sum == SampleWeightedSum(client_models, key, k, 1)
                    IN  Param(model, key)[k] = Rat(sum[1], sum[2] * total)

\* C14: on every non-empty list of same-shaped client models fedavg returns,
\* at each coordinate of each layer, the sum over the clients of
\* num_samples / total_samples times the client's value.
C14_FedavgWeightedSum ==
    SameShapedCall("fedavg") =>
        (agg_ret.raised = None /\ IsWeightedMean(agg_ret.model, agg_call.client_models))

\* fedavg returns the weighted mean whenever some client has samples
FedavgPositiveTotal ==
    (SameShapedCall("fedavg") /\ TotalSamples(agg_call.client_models, 1) > 0) =>
        (agg_ret.raised = None /\ IsWeightedMean(agg_ret.model, agg_call.client_models))

\* the k-th smallest of a list of values
KthSmallest(vals, k) ==
    CHOOSE v \in Range(vals) :
        /\ Cardinality({i \in 1..Len(vals) : RatLess(vals[i], v)}) < k
        /\ Cardinality({i \in 1..Len(vals) : ~RatLess(v, vals[i])}) >= k

\* the median of a list of values: the middle one, or the mean of the two
\* middle ones
Median(vals) ==
    LET n == Len(vals)
    IN  IF n % 2 = 1 THEN KthSmallest(vals, (n + 1) \div 2)
        ELSE LET a == KthSmallest(vals, n \div 2)
                 b == KthSmallest(vals, n \div 2 + 1)
             IN  Rat(a[1] * b[2] + b[1] * a[2], 2 * a[2] * b[2])

\* the returned model has the layers of the first client and, at every
\* coordinate, the median of the clients' values
IsMedian(model, client_models) ==
    LET first == client_models[1][1]
    IN  /\ KeySet(model) = KeySet(first)
        /\ \A key \in KeySet(first) :
              /\ Len(Param(model, key)) = Len(Param(first, key))
              /\ \A k \in 1..Len(Param(first, key)) :
                    Param(model, key)[k] =
                        Median([i \in 1..Len(client_models) |->
                                   Param(client_models[i][1], key)[k]])

\* C15: on every non-empty list of same-shaped client models, of even or odd
\* length, median returns at each coordinate of each layer the median of the
\* clients' values, whatever the sample counts.
C15_MedianPerCoordinate ==
    SameShapedCall("median") =>
        (agg_ret.raised = None /\ IsMedian(agg_ret.model, agg_call.client_models))

\* median returns the median of an odd number of client models
MedianOddCount ==
    (SameShapedCall("median") /\ Len(agg_call.client_models) % 2 = 1) =>
        (agg_ret.raised = None /\ IsMedian(agg_ret.model, agg_call.client_models))

\* the mean of client i's similarities to the other clients (i from 1)
MeanOfOthers(client_models, i) ==
    LET n == Len(client_models)
        others == SortedSeq(1..n \ {i})
    IN  RatDiv(RatSum([k \in 1..Len(others) |->
                          compute_model_similarity(client_models[i][1],
                                                   client_models[others[k]][1]).value], 1),
               <<n - 1, 1>>)

\* the parameter vectors of the client models have one length
SameLength(client_models) ==
    \A i, j \in 1..Len(client_models) :
        Len(Flatten(client_models[i][1], 1)) = Len(Flatten(client_models[j][1], 1))

\* C16: detect_outlier_clients returns no index for fewer than 3 client
\* models; otherwise it returns exactly the indices i whose mean cosine
\* similarity to the other n-1 clients is below threshold.
C16_OutliersBelowMeanOfOthers ==
    (outlier_call.op = "detect_outlier_clients" /\ SameLength(outlier_call.client_models)) =>
        LET cm == outlier_call.client_models
        IN  /\ outlier_call.raised = None
            /\ NoDuplicates(outlier_call.ret)
            /\ Range(outlier_call.ret) =
                  IF Len(cm) < 3 THEN {}
                  ELSE {i - 1 : i \in {k \in 1..Len(cm) :
                            RatLess(MeanOfOthers(cm, k), outlier_call.threshold)}}

\* C17: filter_outliers returns exactly the client models whose index is not
\* returned by detect_outlier_clients on the same arguments, in their order;
\* with no flagged client it returns all of them.
C17_FilterKeepsUnflagged ==
    outlier_call.op = "filter_outliers" =>
        LET cm   == outlier_call.client_models
            d    == detect_outlier_clients(cm, outlier_call.threshold)
            keep == SortedSeq({i \in 1..Len(cm) : (i - 1) \notin Range(d.ret)})
        IN  IF d.raised # None THEN outlier_call.raised = d.raised
            ELSE /\ outlier_call.raised = None
                 /\ outlier_call.ret = [k \in 1..Len(keep) |-> cm[keep[k]]]
                 /\ d.ret = <<>> => outlier_call.ret = cm

\* C17 witness: of three client models the middle one, which differs from
\* the first, was removed
C17_Witness ==
    /\ outlier_call.op = "filter_outliers" /\ outlier_call.raised = None
    /\ Len(outlier_call.client_models) = 3
    /\ outlier_call.client_models[2] # outlier_call.client_models[1]
    /\ outlier_call.ret = <<outlier_call.client_models[1], outlier_call.client_models[3]>>

\* the values the clients of a set report at coordinate k of a layer
ReportedAt(client_models, clients, key, k) ==
    {Param(client_models[i][1], key)[k] : i \in clients}

\* v lies between the least and the greatest value of a non-empty set
BetweenMinAndMax(v, values) ==
    /\ \E lo \in values : ~RatLess(v, lo)
    /\ \E hi \in values : ~RatLess(hi, v)

WithinClientRange(model, client_models) ==
    \A key \in KeySet(client_models[1][1]) :
        \A k \in 1..Len(Param(client_models[1][1], key)) :
            BetweenMinAndMax(Param(model, key)[k],
                             ReportedAt(client_models, 1..Len(client_models), key, k))

\* the weights num_samples / total_samples of the clients, for a positive
\* total, are not negative and sum to 1
WeightsSumToOne(client_models) ==
    LET total == TotalSamples(client_models, 1)
        weight == [i \in 1..Len(client_models) |-> Rat(client_models[i][2], total)]
    IN  /\ \A i \in 1..Len(client_models) : ~RatLess(weight[i], <<0, 1>>)
        /\ RatSum(weight, 1) = <<1, 1>>

\* C29: on every non-empty list of same-shaped client models with sample
\* counts >= 0, all of them 0 included, fedavg returns a model whose every
\* coordinate lies between the minimum and the maximum of the clients'
\* values at that coordinate.
C29_FedavgWithinClientRange ==
    SameShapedCall("fedavg") =>
        /\ agg_ret.raised = None
        /\ WithinClientRange(agg_ret.model, agg_call.client_models)

\* the same when some client has samples: the weights sum to 1 and the
\* result is within the clients' range
FedavgWithinRangePositiveTotal ==
    (SameShapedCall("fedavg") /\ TotalSamples(agg_call.client_models, 1) > 0) =>
        /\ agg_ret.raised = None
        /\ WeightsSumToOne(agg_call.client_models)
        /\ WithinClientRange(agg_ret.model, agg_call.client_models)

\* the orders of a list of n elements
OrdersOf(n) == {p \in [1..n -> 1..n] : \A a, b \in 1..n : p[a] = p[b] => a = b}

\* two calls end alike: both raise, or both return the same model
SameAggregate(r1, r2) ==
    /\ (r1.raised = None) <=> (r2.raised = None)
    /\ r1.model = r2.model

\* what the aggregator of the current method returns on the clients of the
\* last call taken in the order p
AggregateOfOrder(p) ==
    aggregate_models(aggregation_method, <<>>,
                     [i \in 1..Len(agg_call.client_models) |-> agg_call.client_models[p[i]]],
                     agg_call.global_model).ret

\* C30: for fedavg and for median, aggregate_models returns the same model
\* for every order of the same non-empty list of (model, num_samples) pairs.
\* (The call assigns to no tensor of its arguments: agg_call holds the
\* arguments as they are after the call.)
C30_AggregateIgnoresOrder ==
    (NonEmptyCall /\ aggregation_method \in {"fedavg", "median"}) =>
        \A p \in OrdersOf(Len(agg_call.client_models)) :
            SameAggregate(AggregateOfOrder(p), agg_ret)

\* the same on same-shaped client models, in exact arithmetic
SameShapedIgnoresOrder ==
    (SameShapedCall("fedavg") \/ SameShapedCall("median")) =>
        \A p \in OrdersOf(Len(agg_call.client_models)) :
            SameAggregate(AggregateOfOrder(p), agg_ret)

(***************************************************************************)
(* Claims on DifferentialPrivacy                                           *)
(***************************************************************************)
\* two add_noise_to_gradients calls have completed, with the same delta
\* and the same clip_norm
TwoCallsSameDeltaAndClip ==
    /\ dp_prev.op = "add_noise_to_gradients"
    /\ dp_call.op = "add_noise_to_gradients"
    /\ dp_prev.delta = dp_call.delta
    /\ dp_prev.clip_norm = dp_call.clip_norm

\* every element of the returned gradients is the clipped element plus or
\* minus the noise scale (the standard normal samples are -1 and 1)
NoiseHasScale ==
    LET clipped == clip_gradients(dp_call.gradients, dp_call.clip_norm)
    IN  \A n \in 1..Len(clipped) : \A k \in 1..Len(clipped[n][2]) :
            \/ dp_call.ret[n][2][k] = RatAdd(clipped[n][2][k], dp_call.noise_scale)
            \/ dp_call.ret[n][2][k] =
                  RatAdd(clipped[n][2][k], RatMul(<<-1, 1>>, dp_call.noise_scale))

\* C21: for positive clip_norm and epsilon and delta below 1, the noise
\* add_noise_to_gradients adds has a positive standard deviation; of two
\* calls with the same clip_norm and delta, the one with the larger epsilon
\* uses the strictly smaller standard deviation; and the standard deviation
\* times epsilon / clip_norm depends on delta only
C21_NoiseScaleDecreasesWithEpsilon ==
    /\ dp_call.op = "add_noise_to_gradients"
          => /\ RatLess(<<0, 1>>, dp_call.noise_scale)
             /\ NoiseHasScale
    /\ TwoCallsSameDeltaAndClip
          => /\ RatLess(dp_prev.epsilon, dp_call.epsilon)
                   => RatLess(dp_call.noise_scale, dp_prev.noise_scale)
             /\ RatLess(dp_call.epsilon, dp_prev.epsilon)
                   => RatLess(dp_prev.noise_scale, dp_call.noise_scale)
    /\ (/\ dp_prev.op = "add_noise_to_gradients"
        /\ dp_call.op = "add_noise_to_gradients"
        /\ dp_prev.delta = dp_call.delta)
          => RatDiv(RatMul(dp_call.noise_scale, dp_call.epsilon), dp_call.clip_norm)
                = RatDiv(RatMul(dp_prev.noise_scale, dp_prev.epsilon), dp_prev.clip_norm)

\* a call with epsilon 0.1 and then one with epsilon 10 on clipped gradients,
\* same clip_norm and delta, the second with the smaller noise
C21_Witness ==
    /\ TwoCallsSameDeltaAndClip
    /\ dp_prev.epsilon = <<1, 10>>
    /\ dp_call.epsilon = <<10, 1>>
    /\ dp_call.gradients[1][2][1] = <<3, 1>>
    /\ dp_call.ret[1][2][1] # dp_call.gradients[1][2][1]
    /\ RatLess(dp_call.noise_scale, dp_prev.noise_scale)

(***************************************************************************)
(* Claims on the model hash                                                *)
(***************************************************************************)
\* the two state dicts hold the same layer names and, under each name, the
\* same tensor (shape and values)
SameItems(model1, model2) ==
    /\ KeySet(model1) = KeySet(model2)
    /\ \A key \in KeySet(model1) : Param(model1, key) = Param(model2, key)

Hashed == hash_call.op = "_compute_model_hash"

\* C24: two state dicts with the same layers under the same names, built in
\* different insertion orders, get the same hash from both
\* _compute_model_hash methods.
C24_HashIgnoresInsertionOrder ==
    (Hashed /\ SameItems(hash_call.model1, hash_call.model2)) =>
        /\ hash_call.versioning[1] = hash_call.versioning[2]
        /\ hash_call.secure[1] = hash_call.secure[2]

\* C24 witness: the second dict is the first with its layers inserted in
\* the opposite order, the layers holding different values
C24_Witness ==
    /\ Hashed
    /\ SameItems(hash_call.model1, hash_call.model2)
    /\ hash_call.model1[1][1] = 1 /\ hash_call.model2[1][1] = 2
    /\ hash_call.model1[1][2] = <<0, 1>> /\ hash_call.model1[2][2] = <<0>>
    /\ hash_call.versioning[1] = hash_call.versioning[2]

\* C25: two state dicts get the same hash (from either method) only if they
\* hold the same layer names and, under each name, a tensor of the same
\* shape and values.
C25_SameHashOnlyForSameModel ==
    Hashed =>
        /\ hash_call.versioning[1] = hash_call.versioning[2]
              => SameItems(hash_call.model1, hash_call.model2)
        /\ hash_call.secure[1] = hash_call.secure[2]
              => SameItems(hash_call.model1, hash_call.model2)

\* state dicts of the same layer names and shapes get the same hash only if
\* their values are the same
SameHashSameValues ==
    (/\ Hashed
     /\ KeySet(hash_call.model1) = KeySet(hash_call.model2)
     /\ \A key \in KeySet(hash_call.model1) :
           Len(Param(hash_call.model1, key)) = Len(Param(hash_call.model2, key))
     /\ hash_call.versioning[1] = hash_call.versioning[2])
        => SameItems(hash_call.model1, hash_call.model2)

====
